---- MODULE Spec2Model ----
(***************************************************************************)
(* Polling engine of the Instagram reel tracker (src/app/main.py):         *)
(* the due-set selection, the batch executor poll_post_ids, the per-item   *)
(* poll poll_post and the retrying fetch fetch_instagram_metrics, over the *)
(* posts and snapshots tables.                                             *)
(*                                                                         *)
(* The clock counts half seconds and is observed every 1.5 seconds, the    *)
(* unit of the back-off 1.5 * (attempt + 1), so that the truncation of     *)
(* utc_now_iso() to whole seconds is visible.                              *)
(***************************************************************************)
EXTENDS Integers, Sequences, FiniteSets, TLC

\* ------------------------------------------------------------------------
\* Bounds of the model
\* ------------------------------------------------------------------------
\* posts in the store
MaxPosts == 3
\* steps of 1.5 seconds for which a run of a batch is followed
MaxElapsed == 1
\* FETCH_RETRY_COUNT, POLL_BATCH_SIZE, APIFY_MAX_CONCURRENT_RUNS of a batch
MaxRetry == 2
MaxBatch == 3
MaxConcurrent == 2
\* FETCH_RETRY_COUNT where a single fetch is followed
MaxDeepRetry == 5

\* ------------------------------------------------------------------------
\* Encodings
\* ------------------------------------------------------------------------
\* SQL NULL / Python None for an integer or timestamp column.
NULL == 0 - 1
\* A last_polled_at text that datetime.fromisoformat rejects.
BAD == 0 - 2
\* Python None for source_error (the joined error text is never empty).
NoError == << >>
\* The chunk is gathered without a semaphore.
NoSemaphore == 0 - 1

\* The clock counts half seconds.
TicksPerSec == 2
\* asyncio.sleep(1.5 * k) in half seconds, per unit of k; also the step by which
\* the model lets time pass.
BackoffTicks == 3
\* errors[:4]
ErrorsKept == 4
\* The bounds of AddPostRequest.poll_interval_sec; the upper one is also the
\* interval that add_post and bulk_add_posts store.
MinInterval == 60
MaxInterval == 86400

PostIds == 1..MaxPosts

Min(a, b) == IF a <= b THEN a ELSE b

\* The calls of poll_post_ids that the model follows.
Sweeps == {1}

VARIABLES
    posts,                      \* table posts: id -> row, for the stored ids
    snapshots,                  \* table snapshots, in insertion order
    clock,                      \* wall clock, in ticks
    APIFY_TOKEN,                \* TRUE iff the environment sets a token
    IS_POSTGRES,                \* DATABASE_URL names a postgres database
    FETCH_RETRY_COUNT,
    POLL_BATCH_SIZE,
    APIFY_MAX_CONCURRENT_RUNS,
    rpc,                        \* call -> "idle" | "running" | "done"
    post_ids,                   \* call -> the list given to poll_post_ids
    start,                      \* call -> start index of the current chunk
    semaphore,                  \* call -> free permits, or NoSemaphore
    task,                       \* call -> one poll_post coroutine per list position
    called,                     \* call -> the clock and the posts table its caller read
    horizon,                    \* the clock value up to which the run is followed
    DAILY_RUN_HOUR,
    CRON_SECRET,                \* the secret of the cron endpoint, a text; empty when unset
    loop,                       \* the task app.state.poll_task running polling_loop
    manual,                     \* the poll_post coroutine of a poll_now request
    post_url,                   \* column posts.post_url: id -> URL, of every id ever stored
    last_id,                    \* the last value of the id sequence of table posts
    reply,                      \* the answer of the last request that creates posts
    campaigns,                  \* table campaigns: the names stored
    creators,                   \* table creators: the handles stored
    board,                      \* the post rows of the last dashboard response
    arg,                        \* the value last given to the normaliser
    out                         \* what the normaliser made of it

vars == << posts, snapshots, clock, APIFY_TOKEN, IS_POSTGRES, FETCH_RETRY_COUNT,
           POLL_BATCH_SIZE, APIFY_MAX_CONCURRENT_RUNS, rpc, post_ids, start, semaphore, task,
           called, horizon, DAILY_RUN_HOUR, CRON_SECRET, loop, manual, post_url, last_id, reply,
           campaigns, creators, board, arg, out >>

\* CRON_SECRET when the environment does not set it: os.getenv("CRON_SECRET", "").
NoSecret == << >>

\* The settings read from the environment when the module is loaded.
environment == << APIFY_TOKEN, IS_POSTGRES, FETCH_RETRY_COUNT, POLL_BATCH_SIZE,
                  APIFY_MAX_CONCURRENT_RUNS, DAILY_RUN_HOUR, CRON_SECRET >>

\* What only the requests that create posts change.
creation == << post_url, last_id, reply, campaigns, creators >>

\* What only the dashboard and the runs of the normaliser on its own change.
answers == << board, arg, out >>

\* What no step of poll_post_ids and of its coroutines changes.
config == << environment, horizon, loop, manual, creation, answers >>

\* ------------------------------------------------------------------------
\* Provider payload values and the numeric normaliser
\* ------------------------------------------------------------------------
\* A JSON value of the actor's dataset item, as far as the code looks at it:
\* null or an absent key, a boolean, an integer, a float (a finite one is
\* given in halves; json.loads also gives the infinities and NaN), a string
\* (the sequence of its characters), or a list of a given length.
JNull == [t |-> "null", v |-> 0]
JBool(b) == [t |-> "bool", v |-> IF b THEN 1 ELSE 0]
JInt(n) == [t |-> "int", v |-> n]
JFloat(halves) == [t |-> "float", v |-> halves]
JInf(sign) == [t |-> "inf", v |-> sign]
JNaN == [t |-> "nan", v |-> 0]
JStr(text) == [t |-> "str", v |-> text]
JList(n) == [t |-> "list", v |-> n]

\* An exception leaving a function instead of a value.
Raised(exc) == [t |-> exc, v |-> 0]

IsRaised(result) == result.t \in {"ValueError", "OverflowError"}

\* The characters told apart: "sup2" is the superscript two, a digit for
\* str.isdigit() that is no decimal digit for \d, float() and int().
Decimals == {"0", "1", "2", "3", "4", "5", "6", "7", "8", "9"}
Whitespace == {" "}

DigitValue(ch) ==
    CASE ch = "0" -> 0 [] ch = "1" -> 1 [] ch = "2" -> 2 [] ch = "3" -> 3 [] ch = "4" -> 4
      [] ch = "5" -> 5 [] ch = "6" -> 6 [] ch = "7" -> 7 [] ch = "8" -> 8 [] ch = "9" -> 9

\* str.strip()
RECURSIVE lstrip(_)
lstrip(text) ==
    IF text # << >> /\ Head(text) \in Whitespace THEN lstrip(Tail(text)) ELSE text

RECURSIVE rstrip(_)
rstrip(text) ==
    IF text # << >> /\ text[Len(text)] \in Whitespace
    THEN rstrip(SubSeq(text, 1, Len(text) - 1))
    ELSE text

strip(text) == rstrip(lstrip(text))

\* str.replace(",", "")
NotComma(ch) == ch # ","

replace_commas(text) == SelectSeq(text, NotComma)

\* str.lower()
lower_char(ch) ==
    CASE ch = "K" -> "k" [] ch = "M" -> "m" [] ch = "B" -> "b" [] ch = "A" -> "a"
      [] OTHER -> ch

lower(text) == [k \in 1..Len(text) |-> lower_char(text[k])]

\* str.isdigit()
isdigit(text) == text # << >> /\ \A k \in 1..Len(text) : text[k] \in Decimals \cup {"sup2"}

AllDecimal(text) == text # << >> /\ \A k \in 1..Len(text) : text[k] \in Decimals

\* The value of a run of decimal digits.
RECURSIVE digits_value(_)
digits_value(text) ==
    IF text = << >> THEN 0
    ELSE 10 * digits_value(SubSeq(text, 1, Len(text) - 1)) + DigitValue(text[Len(text)])

\* int(text) of a string that passed isdigit().
int_of_str(text) ==
    IF AllDecimal(text) THEN JInt(digits_value(text)) ELSE Raised("ValueError")

\* re.fullmatch(r"(\d+(?:\.\d+)?)([kmb])", cleaned): no match, or the integer
\* digits, the fraction digits and the unit.
NoMatch == [matched |-> FALSE, whole |-> << >>, fraction |-> << >>, unit |-> ""]

compact_match(cleaned) ==
    IF Len(cleaned) < 2 \/ cleaned[Len(cleaned)] \notin {"k", "m", "b"} THEN NoMatch
    ELSE
        LET number == SubSeq(cleaned, 1, Len(cleaned) - 1)
            points == { k \in 1..Len(number) : number[k] = "." }
            unit == cleaned[Len(cleaned)]
        IN  IF points = {}
            THEN IF AllDecimal(number)
                 THEN [matched |-> TRUE, whole |-> number, fraction |-> << >>, unit |-> unit]
                 ELSE NoMatch
            ELSE
                LET k == CHOOSE k \in points : TRUE
                    whole == SubSeq(number, 1, k - 1)
                    fraction == SubSeq(number, k + 1, Len(number))
                IN  IF Cardinality(points) = 1 /\ AllDecimal(whole) /\ AllDecimal(fraction)
                    THEN [matched |-> TRUE, whole |-> whole, fraction |-> fraction,
                          unit |-> unit]
                    ELSE NoMatch

Multiplier(unit) ==
    CASE unit = "k" -> 1000 [] unit = "m" -> 1000000 [] unit = "b" -> 1000000000

\* --- IEEE 754 binary64, as far as float(), * and int() need it: a float is
\* --- [m, e], the bits of an integer of at most Precision bits (most
\* --- significant first, the first one set; none for zero) and the power of
\* --- two it is scaled by.  Long numbers are sequences of bits, worked on
\* --- Chunk bits at a time so that every intermediate fits a machine word.
Precision == 53
Word == 31
Chunk == 8

RECURSIVE Power(_, _)
Power(base, n) ==
    IF n = 0 THEN 1
    ELSE IF n % 2 = 1 THEN base * Power(base, n - 1)
    ELSE Power(base * base, n \div 2)

Zeros(n) == [k \in 1..n |-> 0]

\* The lowest `width` bits of n.
Bits(n, width) == [k \in 1..width |-> (n \div Power(2, width - k)) % 2]

StripZeros(bits) ==
    LET ones == { k \in 1..Len(bits) : bits[k] = 1 }
    IN  IF ones = {} THEN << >>
        ELSE SubSeq(bits, CHOOSE k \in ones : \A j \in ones : k <= j, Len(bits))

ToBits(n) == StripZeros(Bits(n, Word))

RECURSIVE FromBits(_)
FromBits(bits) ==
    IF bits = << >> THEN 0
    ELSE IF Len(bits) = 1 THEN bits[1]
    ELSE
        LET half == Len(bits) \div 2
        IN  FromBits(SubSeq(bits, 1, half)) * Power(2, Len(bits) - half)
                + FromBits(SubSeq(bits, half + 1, Len(bits)))

\* bits + 1
Increment(bits) ==
    LET zeros == { k \in 1..Len(bits) : bits[k] = 0 }
    IN  IF zeros = {} THEN << 1 >> \o Zeros(Len(bits))
        ELSE
            LET last == CHOOSE k \in zeros : \A j \in zeros : j <= k
            IN  [k \in 1..Len(bits) |-> IF k < last THEN bits[k] ELSE IF k = last THEN 1 ELSE 0]

\* Round to nearest, ties to even: bits * 2^e with `sticky` telling that
\* something nonzero lies below the last bit.
round_half_even(bits, e, sticky) ==
    IF Len(bits) <= Precision THEN [m |-> bits, e |-> e]
    ELSE
        LET kept == SubSeq(bits, 1, Precision)
            guard == bits[Precision + 1]
            below == sticky \/ \E k \in (Precision + 2)..Len(bits) : bits[k] = 1
            up == guard = 1 /\ (below \/ kept[Precision] = 1)
            rounded == IF up THEN Increment(kept) ELSE kept
            shift == Len(bits) - Precision
        IN  IF Len(rounded) > Precision
            THEN [m |-> SubSeq(rounded, 1, Precision), e |-> e + shift + 1]
            ELSE [m |-> rounded, e |-> e + shift]

\* Long division of the number `dividend` (a multiple of Chunk bits) by
\* divisor: quotient and remainder.
RECURSIVE divide(_, _, _, _)
divide(dividend, divisor, remainder, quotient) ==
    IF dividend = << >> THEN [q |-> quotient, r |-> remainder]
    ELSE
        LET t == remainder * Power(2, Chunk) + FromBits(SubSeq(dividend, 1, Chunk))
        IN  divide(SubSeq(dividend, Chunk + 1, Len(dividend)), divisor, t % divisor,
                   quotient \o Bits(t \div divisor, Chunk))

\* The bits the numerator is extended to before the division, enough for a
\* quotient of more than Precision bits.
DividendBits == Chunk * ((Word + Precision) \div Chunk)

\* float(text) of <digits>[.<digits>]: the double nearest to the decimal.
float_of_str(whole, fraction) ==
    LET numerator == ToBits(digits_value(whole \o fraction))
        scale == DividendBits - Len(numerator)
        d == divide(numerator \o Zeros(scale), Power(10, Len(fraction)), 0, << >>)
    IN  IF numerator = << >> THEN [m |-> << >>, e |-> 0]
        ELSE round_half_even(StripZeros(d.q), 0 - scale, d.r # 0)

\* bits * factor for a small factor, from the last chunk up.
RECURSIVE times(_, _, _, _)
times(bits, factor, carry, product) ==
    IF bits = << >> THEN ToBits(carry) \o product
    ELSE
        LET n == Len(bits)
            t == carry + FromBits(SubSeq(bits, n - Chunk + 1, n)) * factor
        IN  times(SubSeq(bits, 1, n - Chunk), factor, t \div Power(2, Chunk),
                  Bits(t % Power(2, Chunk), Chunk) \o product)

\* bits * mult for mult a power of 1000, one factor 1000 at a time.
RECURSIVE big_times(_, _)
big_times(bits, mult) ==
    IF mult = 1 THEN bits
    ELSE
        LET padded == Zeros((Chunk - (Len(bits) % Chunk)) % Chunk) \o bits
        IN  big_times(StripZeros(times(padded, 1000, 0, << >>)), mult \div 1000)

\* base * mult in floating point (mult is an int below 2^53, so exact): the
\* exact product rounded.
float_mul(base, mult) == round_half_even(big_times(base.m, mult), base.e, FALSE)

\* int(x) of a finite float: truncation.
int_of_float(x) ==
    IF x.e >= 0 THEN FromBits(x.m) * Power(2, x.e)
    ELSE IF Len(x.m) + x.e <= 0 THEN 0
    ELSE FromBits(SubSeq(x.m, 1, Len(x.m) + x.e))

\* int(value) of a float given in halves: truncation toward zero.
int_of_halves(halves) == IF halves >= 0 THEN halves \div 2 ELSE 0 - ((0 - halves) \div 2)

coerce_int(value) ==
    IF value.t = "null" THEN JNull
    ELSE IF value.t = "bool" THEN JNull
    ELSE IF value.t = "int" THEN JInt(value.v)
    ELSE IF value.t = "float" THEN JInt(int_of_halves(value.v))
    ELSE IF value.t = "inf" THEN Raised("OverflowError")
    ELSE IF value.t = "nan" THEN Raised("ValueError")
    ELSE IF value.t = "str"
    THEN
        LET cleaned == lower(replace_commas(strip(value.v)))
            match == compact_match(cleaned)
        IN  IF match.matched
            THEN JInt(int_of_float(float_mul(float_of_str(match.whole, match.fraction),
                                             Multiplier(match.unit))))
            ELSE IF isdigit(cleaned) THEN int_of_str(cleaned)
            ELSE JNull
    ELSE JNull

\* An Optional[int] as the metrics dict and the tables hold it.
Optional(result) == IF result.t = "int" THEN result.v ELSE NULL

\* Python's `a or b` on the results of two calls: b is evaluated, and is the
\* value, whenever a is None or 0; an exception in the call evaluated leaves
\* the expression.
PyOr(a, b) == IF IsRaised(a) \/ (a.t = "int" /\ a.v # 0) THEN a ELSE b

resolve_comments(item) ==
    LET comments_count == coerce_int(item.commentsCount)
        comments_raw == item.comments
    IN  IF IsRaised(comments_count) \/ comments_count.t = "int" THEN comments_count
        ELSE IF comments_raw.t = "list" THEN JInt(comments_raw.v)
        ELSE coerce_int(comments_raw)

EmptyItem ==
    [videoPlayCount |-> JNull, videoViewCount |-> JNull, playCount |-> JNull,
     likesCount |-> JNull, likes |-> JNull, commentsCount |-> JNull, comments |-> JNull]

\* What the actor endpoint can answer to one POST.
\*   kind "items"   : a non-empty list whose first element is the object `item`
\*   kind "nondict" : a non-empty list whose first element is not an object
\*   kind "empty"   : an empty list, or a body that is not a list
Responses ==
    { [status_code |-> 500, kind |-> "empty", item |-> EmptyItem],
      [status_code |-> 200, kind |-> "empty", item |-> EmptyItem],
      [status_code |-> 200, kind |-> "nondict", item |-> EmptyItem],
      [status_code |-> 200, kind |-> "items",
       item |-> [EmptyItem EXCEPT !.likesCount = JInt(5), !.commentsCount = JInt(2),
                                  !.videoPlayCount = JInt(9)]],
      [status_code |-> 200, kind |-> "items",
       item |-> [EmptyItem EXCEPT !.likes = JInt(0), !.comments = JList(2)]] }

AllNone(metrics) == metrics.likes = NULL /\ metrics.comments = NULL /\ metrics.views = NULL

NoMetrics == [likes |-> NULL, comments |-> NULL, views |-> NULL]

\* Variant: an item without any of the metrics is returned like any other.
ApifyOutcome_AllowsEmpty(response) ==
    IF response.status_code >= 400
    THEN [ok |-> FALSE, exc |-> "Apify actor call failed: HTTP", metrics |-> NoMetrics]
    ELSE IF response.kind = "empty"
    THEN [ok |-> FALSE, exc |-> "Apify actor returned no items", metrics |-> NoMetrics]
    ELSE
        LET item == IF response.kind = "items" THEN response.item ELSE EmptyItem
        IN  [ok |-> TRUE, exc |-> "",
             metrics |-> [views |-> Optional(PyOr(PyOr(coerce_int(item.videoPlayCount),
                                                       coerce_int(item.videoViewCount)),
                                                  coerce_int(item.playCount))),
                          likes |-> Optional(PyOr(coerce_int(item.likesCount),
                                                  coerce_int(item.likes))),
                          comments |-> Optional(resolve_comments(item))]]

\* fetch_metrics_from_apify from the arrival of the HTTP response on:
\* [ok |-> TRUE, metrics] or [ok |-> FALSE, exc] for the RuntimeError raised.
ApifyOutcome(response) ==
    IF response.status_code >= 400
    THEN [ok |-> FALSE, exc |-> "Apify actor call failed: HTTP", metrics |-> NoMetrics]
    ELSE IF response.kind = "empty"
    THEN [ok |-> FALSE, exc |-> "Apify actor returned no items", metrics |-> NoMetrics]
    ELSE
        LET item == IF response.kind = "items" THEN response.item ELSE EmptyItem
            views == PyOr(PyOr(coerce_int(item.videoPlayCount),
                               coerce_int(item.videoViewCount)),
                          coerce_int(item.playCount))
            likes == PyOr(coerce_int(item.likesCount), coerce_int(item.likes))
            comments == resolve_comments(item)
            metrics ==
                [views |-> Optional(views), likes |-> Optional(likes),
                 comments |-> Optional(comments)]
        IN  IF IsRaised(views) \/ IsRaised(likes) \/ IsRaised(comments)
            THEN [ok |-> FALSE, exc |-> "cannot convert float to integer",
                  metrics |-> NoMetrics]
            ELSE IF AllNone(metrics)
            THEN [ok |-> FALSE, exc |-> "Apify response missing views/likes/comments fields",
                  metrics |-> NoMetrics]
            ELSE [ok |-> TRUE, exc |-> "", metrics |-> metrics]

\* utc_now_iso(): the clock truncated to whole seconds (microsecond=0).
utc_now_iso == clock \div TicksPerSec

\* datetime.fromisoformat of a stored timestamp, back in ticks.
fromisoformat(text) == text * TicksPerSec

\* ------------------------------------------------------------------------
\* One poll_post coroutine
\* ------------------------------------------------------------------------
\* pc: "new"      its chunk has not been gathered yet
\*     "created"  gathered, not yet run
\*     "acquire"  suspended in `async with semaphore`
\*     "http"     suspended in client.post of fetch_metrics_from_apify
\*     "sleep"    suspended in asyncio.sleep of fetch_instagram_metrics
\*     "done"     returned
\*     "raised"   left by an exception of the store
\* now, attempt, errors are the locals of poll_post and fetch_instagram_metrics.
\* The other fields record what the coroutine did: fetches and calls count the
\* calls of fetch_instagram_metrics and of fetch_metrics_from_apify, started is
\* the clock when fetch_instagram_metrics was called, slept the back-off waits
\* in order, outcome what fetch_instagram_metrics returned or raised, wrote the
\* rows the coroutine inserted and updated the number of rows its UPDATE changed.
NoOutcome == [kind |-> "none", metrics |-> NoMetrics, provider |-> "", message |-> << >>]

NewTask(post_id) ==
    [pc |-> "new", post_id |-> post_id, now |-> NULL, attempt |-> 0, errors |-> << >>,
     wake |-> 0, holds |-> FALSE, fetches |-> 0, calls |-> 0, started |-> NULL,
     slept |-> << >>, outcome |-> NoOutcome, wrote |-> << >>, updated |-> 0]

\* The two tables, as one coroutine step finds and leaves them.
Store == [posts |-> posts, snapshots |-> snapshots]

Effect(t, db) == [t |-> t, db |-> db]

\* Variant: the timestamp is taken when the row is written.
fetched_at_WhenWritten(t) == utc_now_iso

\* The timestamp that poll_post gives to its INSERT and to its UPDATE: `now`,
\* taken before fetch_instagram_metrics is awaited.
fetched_at(t) == t.now

\* Variant: the snapshot is inserted and last_polled_at is left as it was.
poll_post_write_NoUpdate(t, db, FOREIGN_KEYS, likes, comments, views, status, error) ==
    LET row == [post_id |-> t.post_id, fetched_at |-> fetched_at(t), likes |-> likes,
                comments |-> comments, views |-> views, source_status |-> status,
                source_error |-> error]
    IN  IF FOREIGN_KEYS /\ t.post_id \notin DOMAIN db.posts
        THEN Effect([t EXCEPT !.pc = "raised"], db)
        ELSE Effect([t EXCEPT !.pc = "done", !.wrote = Append(@, row)],
                    [db EXCEPT !.snapshots = Append(@, row)])

\* Variant: the snapshot takes the place of the post's earlier snapshots.
poll_post_write_Replace(t, db, FOREIGN_KEYS, likes, comments, views, status, error) ==
    LET row == [post_id |-> t.post_id, fetched_at |-> fetched_at(t), likes |-> likes,
                comments |-> comments, views |-> views, source_status |-> status,
                source_error |-> error]
        kept == SelectSeq(db.snapshots, LAMBDA old : old.post_id # t.post_id)
    IN  IF FOREIGN_KEYS /\ t.post_id \notin DOMAIN db.posts
        THEN Effect([t EXCEPT !.pc = "raised"], db)
        ELSE IF t.post_id \in DOMAIN db.posts
        THEN Effect([t EXCEPT !.pc = "done", !.wrote = Append(@, row), !.updated = @ + 1],
                    [posts |-> [db.posts EXCEPT ![t.post_id].last_polled_at = fetched_at(t)],
                     snapshots |-> Append(kept, row)])
        ELSE Effect([t EXCEPT !.pc = "done", !.wrote = Append(@, row)],
                    [db EXCEPT !.snapshots = Append(kept, row)])

\* poll_post, lines 633-647: INSERT the snapshot, UPDATE last_polled_at, commit.
\* sqlite does not enforce the foreign key (no PRAGMA foreign_keys); with it
\* enforced the INSERT for a deleted post raises and nothing is committed.
poll_post_write(t, db, FOREIGN_KEYS, likes, comments, views, status, error) ==
    LET row == [post_id |-> t.post_id, fetched_at |-> fetched_at(t), likes |-> likes,
                comments |-> comments, views |-> views, source_status |-> status,
                source_error |-> error]
    IN  IF FOREIGN_KEYS /\ t.post_id \notin DOMAIN db.posts
        THEN Effect([t EXCEPT !.pc = "raised"], db)
        ELSE IF t.post_id \in DOMAIN db.posts
        THEN Effect([t EXCEPT !.pc = "done", !.wrote = Append(@, row), !.updated = @ + 1],
                    [posts |-> [db.posts EXCEPT ![t.post_id].last_polled_at = fetched_at(t)],
                     snapshots |-> Append(db.snapshots, row)])
        ELSE Effect([t EXCEPT !.pc = "done", !.wrote = Append(@, row)],
                    [db EXCEPT !.snapshots = Append(@, row)])

\* Variant: the last four diagnostics are kept.
JoinErrors_LastFour(errors) ==
    SubSeq(errors, Len(errors) - Min(Len(errors), ErrorsKept) + 1, Len(errors))

\* " | ".join(errors[:4])
JoinErrors(errors) == SubSeq(errors, 1, Min(Len(errors), ErrorsKept))

\* Variant: a success after failed attempts is written with their diagnostics.
poll_post_success_KeepsErrors(t, db, FOREIGN_KEYS, metrics) ==
    LET provider == "apify"
        t1 == [t EXCEPT !.outcome = [kind |-> "success", metrics |-> metrics,
                                     provider |-> provider, message |-> << >>]]
    IN  poll_post_write(t1, db, FOREIGN_KEYS, metrics.likes, metrics.comments,
                        metrics.views, "ok:" \o provider, JoinErrors(t.errors))

\* poll_post, lines 623-631: the two ways fetch_instagram_metrics ends.
poll_post_success(t, db, FOREIGN_KEYS, metrics) ==
    LET provider == "apify"
        t1 == [t EXCEPT !.outcome = [kind |-> "success", metrics |-> metrics,
                                     provider |-> provider, message |-> << >>]]
    IN  poll_post_write(t1, db, FOREIGN_KEYS, metrics.likes, metrics.comments,
                        metrics.views, "ok:" \o provider, NoError)

\* Variant: with the retries exhausted the direct-scrape provider is called
\* and its metrics are written.
poll_post_failure_Fallback(t, db, FOREIGN_KEYS, errors) ==
    LET provider == "internal"
        metrics == [likes |-> 5, comments |-> 2, views |-> NULL]
        t1 == [t EXCEPT !.outcome = [kind |-> "success", metrics |-> metrics,
                                     provider |-> provider, message |-> << >>]]
    IN  poll_post_write(t1, db, FOREIGN_KEYS, metrics.likes, metrics.comments,
                        metrics.views, "ok:" \o provider, NoError)

poll_post_failure(t, db, FOREIGN_KEYS, errors) ==
    LET message == JoinErrors(errors)
        t1 == [t EXCEPT !.outcome = [kind |-> "failure", metrics |-> NoMetrics,
                                     provider |-> "", message |-> message]]
    IN  poll_post_write(t1, db, FOREIGN_KEYS, NULL, NULL, NULL, "error", message)

\* Variant: the loop makes one attempt more than FETCH_RETRY_COUNT.
attempt_failed_OneMore(t, db, FOREIGN_KEYS, RETRY_COUNT, exc) ==
    LET errors == Append(t.errors, [attempt |-> t.attempt + 1, exc |-> exc])
        t1 == [t EXCEPT !.errors = errors]
    IN  IF t.attempt < RETRY_COUNT
        THEN Effect([t1 EXCEPT !.pc = "sleep",
                               !.wake = clock + BackoffTicks * (t.attempt + 1),
                               !.slept = Append(@, BackoffTicks * (t.attempt + 1))],
                    db)
        ELSE poll_post_failure(t1, db, FOREIGN_KEYS, errors)

\* Variant: every back-off wait takes 1.5 seconds.
attempt_failed_FlatWait(t, db, FOREIGN_KEYS, RETRY_COUNT, exc) ==
    LET errors == Append(t.errors, [attempt |-> t.attempt + 1, exc |-> exc])
        t1 == [t EXCEPT !.errors = errors]
    IN  IF t.attempt < RETRY_COUNT - 1
        THEN Effect([t1 EXCEPT !.pc = "sleep",
                               !.wake = clock + BackoffTicks,
                               !.slept = Append(@, BackoffTicks)],
                    db)
        ELSE poll_post_failure(t1, db, FOREIGN_KEYS, errors)

\* fetch_instagram_metrics, lines 594-598: one attempt has raised exc.
attempt_failed(t, db, FOREIGN_KEYS, RETRY_COUNT, exc) ==
    LET errors == Append(t.errors, [attempt |-> t.attempt + 1, exc |-> exc])
        t1 == [t EXCEPT !.errors = errors]
    IN  IF t.attempt < RETRY_COUNT - 1
        THEN Effect([t1 EXCEPT !.pc = "sleep",
                               !.wake = clock + BackoffTicks * (t.attempt + 1),
                               !.slept = Append(@, BackoffTicks * (t.attempt + 1))],
                    db)
        ELSE poll_post_failure(t1, db, FOREIGN_KEYS, errors)

\* fetch_instagram_metrics, lines 589-591, and fetch_metrics_from_apify up to
\* its POST: one iteration of the retry loop starts.
attempt_begin(t, db, FOREIGN_KEYS, RETRY_COUNT, token) ==
    LET t1 == [t EXCEPT !.calls = @ + 1]
    IN  IF ~token
        THEN attempt_failed(t1, db, FOREIGN_KEYS, RETRY_COUNT, "APIFY_TOKEN is not set")
        ELSE Effect([t1 EXCEPT !.pc = "http"], db)

\* poll_post without the return of line 613: the fetch is started whatever the
\* SELECT has found.
poll_post_enter_NoCheck(t, db, FOREIGN_KEYS, RETRY_COUNT, token) ==
    attempt_begin([t EXCEPT !.now = utc_now_iso, !.attempt = 0,
                            !.fetches = @ + 1, !.started = clock],
                  db, FOREIGN_KEYS, RETRY_COUNT, token)

\* poll_post, lines 601-621: the lookup of the active post and the timestamp.
poll_post_enter(t, db, FOREIGN_KEYS, RETRY_COUNT, token) ==
    IF t.post_id \notin DOMAIN db.posts \/ db.posts[t.post_id].active # 1
    THEN Effect([t EXCEPT !.pc = "done"], db)
    ELSE attempt_begin([t EXCEPT !.now = utc_now_iso, !.attempt = 0,
                                 !.fetches = @ + 1, !.started = clock],
                       db, FOREIGN_KEYS, RETRY_COUNT, token)

\* ------------------------------------------------------------------------
\* The batch executor
\* ------------------------------------------------------------------------
\* Variant: the slice stops one position early.
ChunkOf_Short(ids, s) == { i \in 1..Len(ids) : s < i /\ i < s + POLL_BATCH_SIZE }

\* The list positions of the chunk post_ids[start : start + POLL_BATCH_SIZE].
ChunkOf(ids, s) == { i \in 1..Len(ids) : s < i /\ i <= s + POLL_BATCH_SIZE }

concurrent_per_batch == Min(APIFY_MAX_CONCURRENT_RUNS, POLL_BATCH_SIZE)

\* Variant: every chunk is gathered without a semaphore.
gather_chunk_NoSemaphore(tasks, ids, s) ==
    [tasks |-> [i \in 1..Len(ids) |->
                    IF i \in ChunkOf(ids, s) THEN [tasks[i] EXCEPT !.pc = "created"]
                    ELSE tasks[i]],
     semaphore |-> NoSemaphore]

\* poll_post_ids, lines 702-713: one iteration of the loop up to its gather.
\* The coroutines of the chunk are created; a semaphore only when the chunk is
\* larger than concurrent_per_batch.
gather_chunk(tasks, ids, s) ==
    [tasks |-> [i \in 1..Len(ids) |->
                    IF i \in ChunkOf(ids, s) THEN [tasks[i] EXCEPT !.pc = "created"]
                    ELSE tasks[i]],
     semaphore |-> IF concurrent_per_batch >= Cardinality(ChunkOf(ids, s))
                   THEN NoSemaphore ELSE concurrent_per_batch]

\* poll_post_ids, lines 696-704, call c with the list ids.
poll_post_ids(c, ids) ==
    IF ids = << >>
    THEN /\ rpc' = [rpc EXCEPT ![c] = "done"]
         /\ called' = [called EXCEPT ![c] = [at |-> clock, posts |-> posts]]
         /\ post_ids' = [post_ids EXCEPT ![c] = << >>]
         /\ start' = [start EXCEPT ![c] = 0]
         /\ semaphore' = [semaphore EXCEPT ![c] = NoSemaphore]
         /\ task' = [task EXCEPT ![c] = << >>]
    ELSE LET g == gather_chunk([i \in 1..Len(ids) |-> NewTask(ids[i])], ids, 0)
         IN  /\ rpc' = [rpc EXCEPT ![c] = "running"]
             /\ called' = [called EXCEPT ![c] = [at |-> clock, posts |-> posts]]
             /\ post_ids' = [post_ids EXCEPT ![c] = ids]
             /\ start' = [start EXCEPT ![c] = 0]
             /\ semaphore' = [semaphore EXCEPT ![c] = g.semaphore]
             /\ task' = [task EXCEPT ![c] = g.tasks]

\* The ids of a set of posts as a list, in ascending order (the SELECTs have no
\* ORDER BY; the rows come in rowid order).
RECURSIVE Ascending(_)
Ascending(S) ==
    IF S = {} THEN << >>
    ELSE LET m == CHOOSE x \in S : \A y \in S : x <= y
         IN  << m >> \o Ascending(S \ {m})

ActiveIds == { id \in DOMAIN posts : posts[id].active = 1 }

\* Variant: a post is due only after its interval has elapsed, not at the
\* moment it elapses.
IsDue_Strict(row, now) ==
    LET last_polled_raw == row.last_polled_at
        interval == IF row.poll_interval_sec # 0 THEN row.poll_interval_sec ELSE 300
    IN  IF last_polled_raw = NULL THEN TRUE
        ELSE IF last_polled_raw = BAD THEN TRUE
        ELSE now > fromisoformat(last_polled_raw) + interval * TicksPerSec

\* poll_due_posts, lines 666-679: is the row appended to due_post_ids at `now`.
IsDue(row, now) ==
    LET last_polled_raw == row.last_polled_at
        interval == IF row.poll_interval_sec # 0 THEN row.poll_interval_sec ELSE 300
    IN  IF last_polled_raw = NULL THEN TRUE
        ELSE IF last_polled_raw = BAD THEN TRUE
        ELSE now >= fromisoformat(last_polled_raw) + interval * TicksPerSec

\* worker(), lines 709-711, and the plain poll_post of line 704, from the first
\* run of the coroutine at list position i to its first suspension: with a
\* semaphore it takes a permit and gives it back if poll_post ends at once, or
\* suspends when there is none.  st is the state the earlier coroutines left.
first_run(st, i, FOREIGN_KEYS, RETRY_COUNT, token) ==
    LET t == st.task[i]
    IN  IF st.semaphore = NoSemaphore
        THEN LET e == poll_post_enter(t, st.db, FOREIGN_KEYS, RETRY_COUNT, token)
             IN  [task |-> [st.task EXCEPT ![i] = e.t], semaphore |-> st.semaphore, db |-> e.db]
        ELSE IF st.semaphore > 0
        THEN LET e == poll_post_enter(t, st.db, FOREIGN_KEYS, RETRY_COUNT, token)
                 released == e.t.pc \in {"done", "raised"}
             IN  [task |-> [st.task EXCEPT ![i] = [e.t EXCEPT !.holds = ~released]],
                  semaphore |-> IF released THEN st.semaphore ELSE st.semaphore - 1,
                  db |-> e.db]
        ELSE [st EXCEPT !.task[i].pc = "acquire"]

\* The coroutines of a gather run for the first time one after the other, in
\* list order, before the event loop runs anything scheduled later.
RECURSIVE first_runs(_, _, _, _, _)
first_runs(st, todo, FOREIGN_KEYS, RETRY_COUNT, token) ==
    IF todo = << >> THEN st
    ELSE first_runs(first_run(st, Head(todo), FOREIGN_KEYS, RETRY_COUNT, token),
                    Tail(todo), FOREIGN_KEYS, RETRY_COUNT, token)

\* A later step of the coroutine at position i leaves it in state e.t; on
\* leaving `async with semaphore` the permit goes back.
Commit(c, i, e) ==
    LET released == task[c][i].holds /\ e.t.pc \in {"done", "raised"}
    IN  /\ task' = [task EXCEPT ![c][i] = [e.t EXCEPT !.holds = @ /\ ~released]]
        /\ semaphore' = [semaphore EXCEPT ![c] = IF released THEN @ + 1 ELSE @]
        /\ snapshots' = e.db.snapshots
        /\ posts' = e.db.posts
        /\ UNCHANGED << clock, config, rpc, post_ids, start, called >>

\* ------------------------------------------------------------------------
\* Actions
\* ------------------------------------------------------------------------
\* Time passes; it is followed while a batch or one of its coroutines is running.
Tick ==
    /\ clock < horizon
    /\ \/ \E c \in Sweeps :
              \/ rpc[c] = "running"
              \/ \E i \in 1..Len(post_ids[c]) : task[c][i].pc \in {"acquire", "http", "sleep"}
       \/ manual.pc \in {"http", "sleep"}
    /\ clock' = clock + BackoffTicks
    /\ UNCHANGED << posts, snapshots, config, rpc, post_ids, start, semaphore, task, called >>

\* poll_due_posts up to its await of poll_post_ids.
PollDuePosts(c) ==
    /\ rpc[c] = "idle"
    /\ LET due_post_ids == Ascending({ id \in ActiveIds : IsDue(posts[id], clock) })
       IN  poll_post_ids(c, due_post_ids)
    /\ UNCHANGED << posts, snapshots, clock, config >>

\* Variant: the SELECT gives every active id twice (a join that repeats rows).
RECURSIVE Doubled(_)
Doubled(ids) == IF ids = << >> THEN << >> ELSE << Head(ids), Head(ids) >> \o Doubled(Tail(ids))

PollAllActivePosts_Repeats(c) ==
    /\ rpc[c] = "idle"
    /\ poll_post_ids(c, Doubled(Ascending(ActiveIds)))
    /\ UNCHANGED << posts, snapshots, clock, config >>

\* poll_all_active_posts up to its await of poll_post_ids.
PollAllActivePosts(c) ==
    /\ rpc[c] = "idle"
    /\ poll_post_ids(c, Ascending(ActiveIds))
    /\ UNCHANGED << posts, snapshots, clock, config >>

Positions(c) == 1..Len(post_ids[c])

Created(c) == { i \in Positions(c) : task[c][i].pc = "created" }

\* The coroutines that asyncio.gather has just created run for the first time.
ChunkRun(c) ==
    /\ Created(c) # {}
    /\ LET st == first_runs([task |-> task[c], semaphore |-> semaphore[c], db |-> Store],
                            Ascending(Created(c)), IS_POSTGRES, FETCH_RETRY_COUNT,
                            APIFY_TOKEN)
       IN  /\ task' = [task EXCEPT ![c] = st.task]
           /\ semaphore' = [semaphore EXCEPT ![c] = st.semaphore]
           /\ snapshots' = st.db.snapshots
           /\ posts' = st.db.posts
    /\ UNCHANGED << clock, config, rpc, post_ids, start, called >>

\* The worker that has waited longest for the semaphore gets the permit a
\* finished worker gave back and runs poll_post up to its first suspension.
TaskAcquire(c, i) ==
    /\ task[c][i].pc = "acquire"
    /\ \A j \in Positions(c) : task[c][j].pc = "acquire" => i <= j
    /\ semaphore[c] > 0
    /\ LET st == first_run([task |-> task[c], semaphore |-> semaphore[c], db |-> Store], i,
                           IS_POSTGRES, FETCH_RETRY_COUNT, APIFY_TOKEN)
       IN  /\ task' = [task EXCEPT ![c] = st.task]
           /\ semaphore' = [semaphore EXCEPT ![c] = st.semaphore]
           /\ snapshots' = st.db.snapshots
           /\ posts' = st.db.posts
    /\ UNCHANGED << clock, config, rpc, post_ids, start, called >>

\* The actor endpoint answers the POST of fetch_metrics_from_apify; the
\* coroutine runs on to the next suspension or to the end of poll_post.
HttpResponse(c, i, response) ==
    /\ task[c][i].pc = "http"
    /\ LET t == task[c][i]
           r == ApifyOutcome(response)
       IN  Commit(c, i,
                  IF r.ok THEN poll_post_success(t, Store, IS_POSTGRES, r.metrics)
                  ELSE attempt_failed(t, Store, IS_POSTGRES, FETCH_RETRY_COUNT, r.exc))

\* asyncio.sleep of the back-off returns, never early; the loop of
\* fetch_instagram_metrics goes to its next iteration.
Wake(c, i) ==
    /\ task[c][i].pc = "sleep"
    /\ clock >= task[c][i].wake
    /\ Commit(c, i, attempt_begin([task[c][i] EXCEPT !.attempt = @ + 1], Store,
                                  IS_POSTGRES, FETCH_RETRY_COUNT, APIFY_TOKEN))

\* Variant: the gather returns as soon as one coroutine of the chunk has returned.
ChunkDone_FirstCompleted(c) ==
    /\ rpc[c] = "running"
    /\ \E i \in ChunkOf(post_ids[c], start[c]) : task[c][i].pc = "done"
    /\ LET next == start[c] + POLL_BATCH_SIZE
       IN  IF next < Len(post_ids[c])
           THEN LET g == gather_chunk(task[c], post_ids[c], next)
                IN  /\ start' = [start EXCEPT ![c] = next]
                    /\ semaphore' = [semaphore EXCEPT ![c] = g.semaphore]
                    /\ task' = [task EXCEPT ![c] = g.tasks]
                    /\ UNCHANGED rpc
           ELSE /\ rpc' = [rpc EXCEPT ![c] = "done"]
                /\ UNCHANGED << start, semaphore, task >>
    /\ UNCHANGED << posts, snapshots, clock, config, post_ids, called >>

\* asyncio.gather of the current chunk returns: poll_post_ids gathers the next
\* chunk or returns.
ChunkDone(c) ==
    /\ rpc[c] = "running"
    /\ \A i \in ChunkOf(post_ids[c], start[c]) : task[c][i].pc = "done"
    /\ LET next == start[c] + POLL_BATCH_SIZE
       IN  IF next < Len(post_ids[c])
           THEN LET g == gather_chunk(task[c], post_ids[c], next)
                IN  /\ start' = [start EXCEPT ![c] = next]
                    /\ semaphore' = [semaphore EXCEPT ![c] = g.semaphore]
                    /\ task' = [task EXCEPT ![c] = g.tasks]
                    /\ UNCHANGED rpc
           ELSE /\ rpc' = [rpc EXCEPT ![c] = "done"]
                /\ UNCHANGED << start, semaphore, task >>
    /\ UNCHANGED << posts, snapshots, clock, config, post_ids, called >>

\* asyncio.gather hands the first exception of a coroutine of the chunk to
\* poll_post_ids, which is left by it; the other coroutines run on.  The worker
\* that the permit of the failed one went to was scheduled before the callback
\* of the gather and has run by then.
GatherRaises(c) ==
    /\ rpc[c] = "running"
    /\ \E i \in ChunkOf(post_ids[c], start[c]) : task[c][i].pc = "raised"
    /\ ~(semaphore[c] > 0 /\ \E i \in Positions(c) : task[c][i].pc = "acquire")
    /\ rpc' = [rpc EXCEPT ![c] = "raised"]
    /\ UNCHANGED << posts, snapshots, clock, config, post_ids, start, semaphore, task,
                    called >>

\* DELETE /api/creators/{creator_id}: the snapshots of the creator's posts and
\* the posts go.
delete_creator(creator_id) ==
    LET deleted == { id \in DOMAIN posts : posts[id].creator_id = creator_id }
    IN  /\ deleted # {}
        /\ snapshots' = SelectSeq(snapshots, LAMBDA row : row.post_id \notin deleted)
        /\ posts' = [id \in DOMAIN posts \ deleted |-> posts[id]]
        /\ creators' = creators \ {creator_id}
        /\ UNCHANGED << clock, environment, horizon, loop, manual, post_url, last_id, reply,
                        campaigns, answers, rpc, post_ids, start, semaphore, task, called >>

\* DELETE /api/all-data
delete_all_data ==
    /\ DOMAIN posts # {}
    /\ posts' = << >>
    /\ snapshots' = << >>
    /\ creators' = {}
    /\ campaigns' = {}
    /\ UNCHANGED << clock, environment, horizon, loop, manual, post_url, last_id, reply,
                    answers, rpc, post_ids, start, semaphore, task, called >>

\* ------------------------------------------------------------------------
\* The scheduler loop
\* ------------------------------------------------------------------------
\* timedelta(days=1) and one hour of the local day, in seconds.
DaySeconds == 86400
HourSeconds == 3600

DayTicks == DaySeconds * TicksPerSec

Max(a, b) == IF a >= b THEN a ELSE b

\* seconds_until_next_daily_run(hour), in ticks.  The clock counts from a local
\* midnight and the local offset does not change.
seconds_until_next_daily_run(hour) ==
    LET now == clock
        today == (now \div DayTicks) * DayTicks + hour * HourSeconds * TicksPerSec
        next_run == IF today <= now THEN today + DayTicks ELSE today
    IN  Max(next_run - now, TicksPerSec)

\* The task that runs polling_loop.
\* pc: "off"        ENABLE_INTERNAL_SCHEDULER is off, no task was created
\*     "sleeping"   suspended in asyncio.sleep until the clock reaches wake
\*     "sweeping"   suspended in the await of poll_all_active_posts, call `call`
\*     "ended"      left by an exception
\*     "cancelled"  left by the CancelledError of shutdown_event
\* armed is the clock when the sleep began, sweeps the number of calls of
\* poll_all_active_posts so far and swallowed the number of exceptions that
\* the except clause has caught.
NoLoop == [pc |-> "off", armed |-> 0, wake |-> 0, call |-> 0, sweeps |-> 0, swallowed |-> 0]

\* polling_loop, lines 725-727: the top of the loop body up to asyncio.sleep.
polling_loop_sleep(l) ==
    [l EXCEPT !.pc = "sleeping", !.armed = clock,
              !.wake = clock + seconds_until_next_daily_run(DAILY_RUN_HOUR)]

\* Variant: the loop has no except clause.
polling_loop_except_Propagates(l) == [l EXCEPT !.pc = "ended"]

\* polling_loop, lines 729-731: an exception of the cycle is caught and the
\* loop goes round.
polling_loop_except(l) == polling_loop_sleep([l EXCEPT !.swallowed = @ + 1])

\* The coroutines of call c that are suspended or about to run.
Alive(c) == { i \in Positions(c) : task[c][i].pc \in {"created", "acquire", "http", "sleep"} }

\* A day passes in one step: the clock reaches the time the loop sleeps until.
\* Nothing else is pending by then (the POST has a timeout of 120 seconds).
Elapse ==
    /\ loop.pc = "sleeping"
    /\ clock < loop.wake
    /\ \A c \in Sweeps : Alive(c) = {}
    /\ clock' = loop.wake
    /\ UNCHANGED << posts, snapshots, environment, creation, answers, horizon, loop, manual, rpc, post_ids,
                    start, semaphore, task, called >>

\* asyncio.sleep of polling_loop returns, never early, and poll_all_active_posts
\* is called as call c: its SELECT raises when the store cannot be reached,
\* otherwise poll_post_ids is awaited with the ids of the active posts.
polling_loop_sweep(c, store_up) ==
    /\ loop.pc = "sleeping"
    /\ clock >= loop.wake
    /\ rpc[c] # "running"
    /\ Alive(c) = {}
    /\ IF store_up
       THEN /\ poll_post_ids(c, Ascending(ActiveIds))
            /\ loop' = [loop EXCEPT !.pc = "sweeping", !.call = c, !.sweeps = @ + 1]
       ELSE /\ loop' = polling_loop_except([loop EXCEPT !.call = c, !.sweeps = @ + 1])
            /\ rpc' = [rpc EXCEPT ![c] = "raised"]
            /\ called' = [called EXCEPT ![c] = [at |-> clock, posts |-> posts]]
            /\ post_ids' = [post_ids EXCEPT ![c] = << >>]
            /\ start' = [start EXCEPT ![c] = 0]
            /\ semaphore' = [semaphore EXCEPT ![c] = NoSemaphore]
            /\ task' = [task EXCEPT ![c] = << >>]
    /\ UNCHANGED << posts, snapshots, clock, environment, creation, answers, horizon, manual >>

\* poll_all_active_posts has returned or has raised: the loop goes round.
polling_loop_resume ==
    /\ loop.pc = "sweeping"
    /\ rpc[loop.call] \in {"done", "raised"}
    /\ loop' = IF rpc[loop.call] = "raised" THEN polling_loop_except(loop)
               ELSE polling_loop_sleep(loop)
    /\ UNCHANGED << posts, snapshots, clock, environment, creation, answers, horizon, manual, rpc, post_ids,
                    start, semaphore, task, called >>

\* shutdown_event where the cancellation reaches a poll between its INSERT and
\* its UPDATE: the first poll in flight leaves its snapshot without the
\* last_polled_at that belongs to it.
shutdown_event_Torn ==
    /\ loop.pc \in {"sleeping", "sweeping"}
    /\ loop' = [loop EXCEPT !.pc = "cancelled"]
    /\ IF loop.pc = "sweeping" /\ rpc[loop.call] = "running"
       THEN LET c == loop.call
                flying == { i \in Positions(c) : task[c][i].pc = "http" }
                torn == IF flying = {} THEN << >>
                        ELSE LET t == task[c][CHOOSE i \in flying : \A j \in flying : i <= j]
                             IN  << [post_id |-> t.post_id, fetched_at |-> fetched_at(t),
                                     likes |-> NULL, comments |-> NULL, views |-> NULL,
                                     source_status |-> "error", source_error |-> "cancelled"] >>
            IN  /\ rpc' = [rpc EXCEPT ![c] = "cancelled"]
                /\ task' = [task EXCEPT ![c] =
                                [i \in Positions(c) |->
                                    IF i \in Alive(c)
                                    THEN [task[c][i] EXCEPT !.pc = "cancelled", !.holds = FALSE]
                                    ELSE task[c][i]]]
                /\ semaphore' = [semaphore EXCEPT ![c] = NoSemaphore]
                /\ snapshots' = snapshots \o torn
       ELSE UNCHANGED << rpc, task, semaphore, snapshots >>
    /\ UNCHANGED << posts, clock, environment, creation, answers, horizon, manual, post_ids, start,
                    called >>

\* shutdown_event: poll_task.cancel() and the await of the task.  The
\* CancelledError is not an Exception, so no except clause on its way catches
\* it.  A loop suspended in a gather that is still pending cancels the gather,
\* and the gather its unfinished coroutines; a gather that is done has nothing
\* to cancel.
shutdown_event ==
    /\ loop.pc \in {"sleeping", "sweeping"}
    /\ loop' = [loop EXCEPT !.pc = "cancelled"]
    /\ IF loop.pc = "sweeping" /\ rpc[loop.call] = "running"
       THEN LET c == loop.call
            IN  /\ rpc' = [rpc EXCEPT ![c] = "cancelled"]
                /\ task' = [task EXCEPT ![c] =
                                [i \in Positions(c) |->
                                    IF i \in Alive(c)
                                    THEN [task[c][i] EXCEPT !.pc = "cancelled", !.holds = FALSE]
                                    ELSE task[c][i]]]
                /\ semaphore' = [semaphore EXCEPT ![c] = NoSemaphore]
       ELSE UNCHANGED << rpc, task, semaphore >>
    /\ UNCHANGED << posts, snapshots, clock, environment, creation, answers, horizon, manual, post_ids, start,
                    called >>

\* ------------------------------------------------------------------------
\* The manual poll of one post
\* ------------------------------------------------------------------------
\* No poll_now request has been made.
NoManual == NewTask(0)

\* A step of the coroutine of poll_now leaves it in state e.t.
CommitManual(e) ==
    /\ manual' = e.t
    /\ snapshots' = e.db.snapshots
    /\ posts' = e.db.posts
    /\ UNCHANGED << clock, environment, creation, answers, horizon, loop, rpc, post_ids, start, semaphore, task,
                    called >>

\* POST /api/poll-now with a post_id (MANUAL_POLL_ENABLED is on): poll_post of
\* that post runs up to its first suspension.
poll_now(post_id) ==
    /\ manual.pc = "new"
    /\ CommitManual(poll_post_enter(NewTask(post_id), Store, IS_POSTGRES, FETCH_RETRY_COUNT,
                                    APIFY_TOKEN))

\* The actor endpoint answers the POST of the manual poll.
ManualHttpResponse(response) ==
    /\ manual.pc = "http"
    /\ LET r == ApifyOutcome(response)
       IN  CommitManual(IF r.ok THEN poll_post_success(manual, Store, IS_POSTGRES, r.metrics)
                        ELSE attempt_failed(manual, Store, IS_POSTGRES, FETCH_RETRY_COUNT,
                                            r.exc))

\* The back-off sleep of the manual poll returns.
ManualWake ==
    /\ manual.pc = "sleep"
    /\ clock >= manual.wake
    /\ CommitManual(attempt_begin([manual EXCEPT !.attempt = @ + 1], Store, IS_POSTGRES,
                                  FETCH_RETRY_COUNT, APIFY_TOKEN))

\* ------------------------------------------------------------------------
\* Initial states and specifications
\* ------------------------------------------------------------------------
\* The row add_post inserts, and the placeholder snapshot it inserts with it.
FreshPost(creator_id) ==
    [creator_id |-> creator_id, active |-> 1, last_polled_at |-> NULL,
     poll_interval_sec |-> MaxInterval]

\* The creators of the store: the first post is of one creator, the others of
\* another.
Creators == {1, 2}

CreatorOf(id) == IF id = 1 THEN 1 ELSE 2

scheduled_snapshot(post_id, at) ==
    [post_id |-> post_id, fetched_at |-> at, likes |-> NULL, comments |-> NULL,
     views |-> NULL, source_status |-> "scheduled", source_error |-> NoError]

\* ------------------------------------------------------------------------
\* The creation of posts
\* ------------------------------------------------------------------------
\* The post URLs that requests name, and the lines of a bulk text.
MaxUrls == 2
MaxLines == 2

Urls == 1..MaxUrls

\* The line of a bulk text that is turned down before any INSERT (no live
\* link, not a reel URL, no creator handle).
BadLine == 0

\* The transaction a request opens with get_db(): the tables as its connection
\* sees them, whether a statement has failed in it (aborted), whether the
\* request has been left by an exception that is not a unique violation
\* (raised), and the locals inserted_post_ids and errors.
Transaction ==
    [posts |-> posts, snapshots |-> snapshots, post_url |-> post_url, last_id |-> last_id,
     campaigns |-> campaigns, creators |-> creators,
     aborted |-> FALSE, raised |-> FALSE, inserted |-> << >>, errors |-> 0]

\* The campaign that the requests of the creation runs name.
CampaignOf(url) == 1

\* The names and handles that requests give.
Campaigns == {1, 2}
Handles == Creators

\* upsert_campaign(conn, name): INSERT OR IGNORE, or ON CONFLICT DO NOTHING.
upsert_campaign(tx, name) == [tx EXCEPT !.campaigns = @ \cup {name}]

\* upsert_creator(conn, handle); the columns the UPDATE fills are not followed.
upsert_creator(tx, handle) == [tx EXCEPT !.creators = @ \cup {handle}]

\* Variant: no placeholder is written.
insert_scheduled_snapshot_Skipped(tx, post_id) == tx

\* insert_scheduled_snapshot(conn, post_id)
insert_scheduled_snapshot(tx, post_id) ==
    [tx EXCEPT !.snapshots = Append(@, scheduled_snapshot(post_id, utc_now_iso))]

\* add_post, lines 795-814, and bulk_add_posts, lines 885-908: the INSERT into
\* posts, the SELECT of the new id and the placeholder.  post_url is UNIQUE; a
\* violation is caught and counted.  The id sequence of Postgres has moved on
\* even so, and Postgres turns down every later statement of the transaction.
insert_post(tx, url, creator_id) ==
    LET id == tx.last_id + 1
    IN  IF url \in { tx.post_url[p] : p \in DOMAIN tx.posts }
        THEN [tx EXCEPT !.errors = @ + 1, !.aborted = IS_POSTGRES,
                        !.last_id = IF IS_POSTGRES THEN id ELSE @]
        ELSE insert_scheduled_snapshot(
                 [tx EXCEPT !.posts = [p \in DOMAIN tx.posts \cup {id} |->
                                          IF p = id THEN FreshPost(creator_id) ELSE tx.posts[p]],
                            !.post_url = [p \in DOMAIN tx.post_url \cup {id} |->
                                             IF p = id THEN url ELSE tx.post_url[p]],
                            !.last_id = id,
                            !.inserted = Append(@, id)],
                 id)

\* POST /api/posts where the two upserts are committed on their own, before
\* the INSERT into posts.
add_post_payload_CommitsUpserts(payload) ==
    /\ last_id < MaxPosts
    /\ LET upserted == upsert_creator(upsert_campaign(Transaction, payload.campaign_name),
                                      payload.creator_handle)
           tx == insert_post(upserted, payload.post_url, payload.creator_handle)
       IN  IF tx.errors > 0
           THEN /\ reply' = [status |-> 409, inserted |-> << >>, errors |-> tx.errors]
                /\ last_id' = IF IS_POSTGRES THEN tx.last_id ELSE last_id
                /\ campaigns' = upserted.campaigns
                /\ creators' = upserted.creators
                /\ UNCHANGED << posts, snapshots, post_url >>
           ELSE /\ reply' = [status |-> 200, inserted |-> tx.inserted, errors |-> 0]
                /\ posts' = tx.posts
                /\ snapshots' = tx.snapshots
                /\ post_url' = tx.post_url
                /\ last_id' = tx.last_id
                /\ campaigns' = tx.campaigns
                /\ creators' = tx.creators
    /\ UNCHANGED << clock, environment, answers, horizon, loop, manual, rpc, post_ids, start,
                    semaphore, task, called >>

\* POST /api/posts: one transaction of upsert_campaign, upsert_creator, the
\* INSERT and the placeholder; HTTP 409 on a duplicate URL, and the connection
\* is closed without a commit, which undoes the two upserts as well.
add_post_payload(payload) ==
    /\ last_id < MaxPosts
    /\ LET tx == insert_post(upsert_creator(upsert_campaign(Transaction, payload.campaign_name),
                                            payload.creator_handle),
                             payload.post_url, payload.creator_handle)
       IN  IF tx.errors > 0
           THEN /\ reply' = [status |-> 409, inserted |-> << >>, errors |-> tx.errors]
                /\ last_id' = IF IS_POSTGRES THEN tx.last_id ELSE last_id
                /\ UNCHANGED << posts, snapshots, post_url, campaigns, creators >>
           ELSE /\ reply' = [status |-> 200, inserted |-> tx.inserted, errors |-> 0]
                /\ posts' = tx.posts
                /\ snapshots' = tx.snapshots
                /\ post_url' = tx.post_url
                /\ last_id' = tx.last_id
                /\ campaigns' = tx.campaigns
                /\ creators' = tx.creators
    /\ UNCHANGED << clock, environment, answers, horizon, loop, manual, rpc, post_ids, start,
                    semaphore, task, called >>

\* The request for url of the creation runs, where the URL tells the creator.
add_post(url) ==
    add_post_payload([campaign_name |-> CampaignOf(url), creator_handle |-> CreatorOf(url),
                      post_url |-> url])

\* bulk_add_posts, lines 866-908: the loop over the rows of the bulk text, in
\* one transaction.  upsert_creator of a row that follows a failed INSERT is
\* turned down by Postgres and the request is left by that exception.
RECURSIVE bulk_rows(_, _)
bulk_rows(tx, lines) ==
    IF lines = << >> \/ tx.raised THEN tx
    ELSE IF Head(lines) = BadLine
    THEN bulk_rows([tx EXCEPT !.errors = @ + 1], Tail(lines))
    ELSE IF tx.aborted
    THEN [tx EXCEPT !.raised = TRUE]
    ELSE bulk_rows(insert_post(upsert_creator(tx, CreatorOf(Head(lines))), Head(lines),
                               CreatorOf(Head(lines))),
                   Tail(lines))

\* POST /api/posts/bulk up to its await of poll_post_ids; the call of
\* poll_post_ids is call c.  The COMMIT of a Postgres transaction in which a
\* statement failed rolls the transaction back and reports no error.
bulk_add_posts(c, lines) ==
    /\ rpc[c] = "idle"
    /\ last_id + Len(lines) <= MaxPosts
    /\ LET tx == bulk_rows(upsert_campaign(Transaction, CampaignOf(Head(lines))), lines)
           committed == ~tx.raised /\ ~tx.aborted
       IN  /\ posts' = IF committed THEN tx.posts ELSE posts
           /\ campaigns' = IF committed THEN tx.campaigns ELSE campaigns
           /\ creators' = IF committed THEN tx.creators ELSE creators
           /\ snapshots' = IF committed THEN tx.snapshots ELSE snapshots
           /\ post_url' = IF committed THEN tx.post_url ELSE post_url
           /\ last_id' = IF committed \/ IS_POSTGRES THEN tx.last_id ELSE last_id
           /\ reply' = IF tx.raised
                       THEN [status |-> 500, inserted |-> << >>, errors |-> tx.errors]
                       ELSE [status |-> 200, inserted |-> tx.inserted, errors |-> tx.errors]
           /\ IF ~tx.raised /\ tx.inserted # << >>
              THEN poll_post_ids(c, tx.inserted)
              ELSE UNCHANGED << rpc, post_ids, start, semaphore, task, called >>
    /\ UNCHANGED << clock, environment, answers, horizon, loop, manual >>

\* ------------------------------------------------------------------------
\* The dashboard
\* ------------------------------------------------------------------------
\* The rows of a post in the snapshots table, by their position.
OfPost(history, id) == { k \in 1..Len(history) : history[k].post_id = id }

\* The rows of a post in which a column is not NULL.
WithField(history, id, field) == { k \in OfPost(history, id) : history[k][field] # NULL }

\* ORDER BY fetched_at DESC LIMIT 1 over the rows K: any row of the greatest
\* fetched_at (the order among equal timestamps is not defined), no row (0)
\* when there is none.
NoRow == 0

LatestOf(history, K) ==
    IF K = {} THEN {NoRow}
    ELSE { k \in K : \A j \in K : history[j].fetched_at <= history[k].fetched_at }

\* A column value as Python reads it from the row.
FromColumn(v) == IF v = NULL THEN JNull ELSE JInt(v)

\* Variant: the column of the joined snapshot alone.
coalesce_field_LatestOnly(history, field, s, s3) ==
    IF s # NoRow THEN history[s][field] ELSE NULL

\* COALESCE(s.<field>, (SELECT s3.<field> ... LIMIT 1)) for the joined newest
\* snapshot s and the row s3 of the subquery.
coalesce_field(history, field, s, s3) ==
    IF s # NoRow /\ history[s][field] # NULL THEN history[s][field]
    ELSE IF s3 # NoRow THEN history[s3][field]
    ELSE NULL

\* dashboard and campaign_dashboard: the row of one active post, for one way
\* the four LIMIT 1 selections can fall.
post_row(history, id, s, likes3, comments3, views3) ==
    [likes |-> Optional(coerce_int(FromColumn(coalesce_field(history, "likes", s, likes3)))),
     comments |-> Optional(coerce_int(FromColumn(coalesce_field(history, "comments", s, comments3)))),
     views |-> Optional(coerce_int(FromColumn(coalesce_field(history, "views", s, views3)))),
     source_status |-> IF s # NoRow THEN history[s].source_status ELSE "pending",
     last_snapshot_at |-> IF s # NoRow THEN history[s].fetched_at ELSE NULL]

\* Every row the query can give for the post.
post_rows(history, id) ==
    { post_row(history, id, s, likes3, comments3, views3) :
        s \in LatestOf(history, OfPost(history, id)),
        likes3 \in LatestOf(history, WithField(history, id, "likes")),
        comments3 \in LatestOf(history, WithField(history, id, "comments")),
        views3 \in LatestOf(history, WithField(history, id, "views")) }

\* GET /api/dashboard: the rows of the active posts.
dashboard ==
    /\ board' \in { rows \in [ActiveIds -> UNION { post_rows(snapshots, id) : id \in ActiveIds }] :
                      \A id \in ActiveIds : rows[id] \in post_rows(snapshots, id) }
    /\ UNCHANGED << posts, snapshots, clock, environment, creation, arg, out, horizon, loop,
                    manual, rpc, post_ids, start, semaphore, task, called >>

\* The posts of the initial store were created one by one, each with its own
\* URL, and no request is being answered.
NoReply == [status |-> 0, inserted |-> << >>, errors |-> 0]

Seeded ==
    /\ post_url = [id \in DOMAIN posts |-> id]
    /\ last_id = Cardinality(DOMAIN posts)
    /\ reply = NoReply
    /\ campaigns = { CampaignOf(post_url[id]) : id \in DOMAIN posts }
    /\ creators = { posts[id].creator_id : id \in DOMAIN posts }

\* No dashboard has been asked for (the rows of an empty store), nothing has
\* been given to the normaliser.
NoBoard == << >>

\* No call of the normaliser or of the response parser on its own has returned.
NoResult == [t |-> "pending", v |-> 0]

NoSweep ==
    /\ board = NoBoard
    /\ rpc = [c \in Sweeps |-> "idle"]
    /\ post_ids = [c \in Sweeps |-> << >>]
    /\ start = [c \in Sweeps |-> 0]
    /\ semaphore = [c \in Sweeps |-> NoSemaphore]
    /\ task = [c \in Sweeps |-> << >>]
    /\ called = [c \in Sweeps |-> [at |-> 0, posts |-> << >>]]

Idle ==
    /\ NoSweep
    /\ arg = JNull
    /\ out = NoResult

\* The defaults of POLL_BATCH_SIZE, APIFY_MAX_CONCURRENT_RUNS and DAILY_RUN_HOUR.
DefaultBatchSize == 5
DefaultConcurrentRuns == 1
DefaultRunHour == 9

\* The answers of the actor endpoint in the runs of a whole batch: one that
\* fails the attempt and one that gives metrics.
BatchResponses ==
    { r \in Responses : r.status_code = 500 \/ ApifyOutcome(r).metrics.likes = 5 }

\* --- A batch over a store of MaxPosts freshly added posts, under any
\* --- configuration the environment can give: every batch size and cap, and a
\* --- fetch without retry or with MaxRetry attempts.
Init ==
    /\ posts = [id \in PostIds |-> FreshPost(CreatorOf(id))]
    /\ snapshots = [id \in PostIds |-> scheduled_snapshot(id, 0)]
    /\ clock = 0
    /\ horizon = clock + MaxElapsed * BackoffTicks
    /\ APIFY_TOKEN \in BOOLEAN
    /\ IS_POSTGRES \in BOOLEAN
    /\ FETCH_RETRY_COUNT \in {1, MaxRetry}
    /\ POLL_BATCH_SIZE \in 1..MaxBatch
    /\ APIFY_MAX_CONCURRENT_RUNS \in 1..MaxConcurrent
    /\ DAILY_RUN_HOUR = DefaultRunHour
    /\ CRON_SECRET = NoSecret
    /\ loop = NoLoop
    /\ manual = NoManual
    /\ Seeded
    /\ Idle

Next ==
    \/ Tick
    \/ \E c \in Sweeps : PollDuePosts(c)
    \/ \E c \in Sweeps : PollAllActivePosts(c)
    \/ \E c \in Sweeps : ChunkRun(c)
    \/ \E c \in Sweeps : \E i \in Positions(c) : TaskAcquire(c, i)
    \/ \E c \in Sweeps : \E i \in Positions(c) : \E response \in BatchResponses :
           HttpResponse(c, i, response)
    \/ \E c \in Sweeps : \E i \in Positions(c) : Wake(c, i)
    \/ \E c \in Sweeps : ChunkDone(c)
    \/ \E c \in Sweeps : GatherRaises(c)
    \/ \E creator_id \in Creators : delete_creator(creator_id)
    \/ delete_all_data

Spec == Init /\ [][Next]_vars

\* --- The fetch of a single post, followed through all its retries and
\* --- back-off waits, under every answer of the endpoint.  With one post no
\* --- chunk ever needs the semaphore, so no worker ever suspends on it.  The
\* --- run is followed for as long as all the back-off waits take together,
\* --- 1.5 * (1 + ... + (retries - 1)) seconds.
TotalBackoff(retries) == (retries * (retries - 1)) \div 2

InitFetch ==
    /\ posts = [id \in {1} |-> FreshPost(CreatorOf(id))]
    /\ snapshots = << scheduled_snapshot(1, 0) >>
    /\ clock = 0
    /\ APIFY_TOKEN \in BOOLEAN
    /\ IS_POSTGRES \in BOOLEAN
    /\ FETCH_RETRY_COUNT \in 1..MaxDeepRetry
    /\ horizon = clock + TotalBackoff(FETCH_RETRY_COUNT) * BackoffTicks
    /\ POLL_BATCH_SIZE = DefaultBatchSize
    /\ APIFY_MAX_CONCURRENT_RUNS = DefaultConcurrentRuns
    /\ DAILY_RUN_HOUR = DefaultRunHour
    /\ CRON_SECRET = NoSecret
    /\ loop = NoLoop
    /\ manual = NoManual
    /\ Seeded
    /\ Idle

NextFetch ==
    \/ Tick
    \/ \E c \in Sweeps : PollDuePosts(c)
    \/ \E c \in Sweeps : PollAllActivePosts(c)
    \/ \E c \in Sweeps : ChunkRun(c)
    \/ \E c \in Sweeps : \E i \in Positions(c) : \E response \in Responses :
           HttpResponse(c, i, response)
    \/ \E c \in Sweeps : \E i \in Positions(c) : Wake(c, i)
    \/ \E c \in Sweeps : ChunkDone(c)
    \/ \E c \in Sweeps : GatherRaises(c)
    \/ delete_all_data

SpecFetch == InitFetch /\ [][NextFetch]_vars

\* --- poll_due_posts over every store of MaxPosts rows that the posts table
\* --- can hold (a row may be inactive, carry a timestamp that does not parse,
\* --- or an interval from either end of the allowed range), started around
\* --- the moment a post polled at second 0 with the minimal interval falls
\* --- due.  No token is set and nothing is retried, so every poll ends in the
\* --- step it starts in and no worker ever finds the semaphore taken.
DueRows(creator_id) ==
    { [creator_id |-> creator_id, active |-> a, last_polled_at |-> l,
       poll_interval_sec |-> MinInterval] : a \in {0, 1}, l \in {NULL, BAD, 0} }
    \cup { [creator_id |-> creator_id, active |-> 1, last_polled_at |-> 0,
            poll_interval_sec |-> MaxInterval] }

DueBootClocks == { MinInterval * TicksPerSec + d : d \in (0 - 4)..1 }

InitDue ==
    /\ posts \in { rows \in [PostIds -> UNION { DueRows(k) : k \in Creators }] :
                     \A id \in PostIds : rows[id].creator_id = CreatorOf(id) }
    /\ snapshots = [id \in PostIds |-> scheduled_snapshot(id, 0)]
    /\ clock \in DueBootClocks
    /\ horizon = clock + MaxElapsed * BackoffTicks
    /\ APIFY_TOKEN = FALSE
    /\ IS_POSTGRES = FALSE
    /\ FETCH_RETRY_COUNT = 1
    /\ POLL_BATCH_SIZE = DefaultBatchSize
    /\ APIFY_MAX_CONCURRENT_RUNS = DefaultConcurrentRuns
    /\ DAILY_RUN_HOUR = DefaultRunHour
    /\ CRON_SECRET = NoSecret
    /\ loop = NoLoop
    /\ manual = NoManual
    /\ Seeded
    /\ Idle

NextDue ==
    \/ Tick
    \/ \E c \in Sweeps : PollDuePosts(c)
    \/ \E c \in Sweeps : ChunkRun(c)
    \/ \E c \in Sweeps : ChunkDone(c)
    \/ \E creator_id \in Creators : delete_creator(creator_id)
    \/ delete_all_data

SpecDue == InitDue /\ [][NextDue]_vars

\* --- The scheduler loop from the startup of the application on, followed
\* --- over MaxSweeps daily runs and to its shutdown.  The store holds posts
\* --- that are active or not, polled before or not; the application starts
\* --- half a second before, at, or half a second after the configured hour.
\* --- The batch runs under the default cap, in one chunk (the default batch
\* --- size) or in chunks of MaxBatch - 1 posts, without retry, and
\* --- every fetch succeeds; the time a sweep takes is not followed, the clock
\* --- moves from one daily run to the next.
MaxSweeps == 2

\* The store in which the post k is inactive, the posts before it were polled
\* at the end of day 0 and the posts after it have never been polled; k = 0
\* for the store without an inactive post.
LoopStore(k) ==
    [id \in PostIds |->
        [creator_id |-> CreatorOf(id), active |-> IF id = k THEN 0 ELSE 1,
         last_polled_at |-> IF id <= k THEN DaySeconds ELSE NULL,
         poll_interval_sec |-> MaxInterval]]

LoopResponses == { r \in BatchResponses : ApifyOutcome(r).ok }

LoopHours == {0, DefaultRunHour}

LoopBootClocks(hour) ==
    { DayTicks + hour * HourSeconds * TicksPerSec + d : d \in (0 - 1)..1 }

InitLoop ==
    /\ posts \in { LoopStore(k) : k \in 0..MaxPosts }
    /\ snapshots = [id \in PostIds |-> scheduled_snapshot(id, 0)]
    /\ DAILY_RUN_HOUR \in LoopHours
    /\ CRON_SECRET = NoSecret
    /\ clock \in LoopBootClocks(DAILY_RUN_HOUR)
    /\ horizon = clock
    /\ APIFY_TOKEN = TRUE
    /\ IS_POSTGRES \in BOOLEAN
    /\ FETCH_RETRY_COUNT = 1
    /\ POLL_BATCH_SIZE \in {MaxBatch - 1, DefaultBatchSize}
    /\ APIFY_MAX_CONCURRENT_RUNS = DefaultConcurrentRuns
    /\ loop = polling_loop_sleep(NoLoop)
    /\ manual = NoManual
    /\ Seeded
    /\ Idle

NextLoop ==
    \/ Elapse
    \/ \E c \in Sweeps : \E store_up \in BOOLEAN :
           loop.sweeps < MaxSweeps /\ polling_loop_sweep(c, store_up)
    \/ polling_loop_resume
    \/ shutdown_event
    \/ \E c \in Sweeps : ChunkRun(c)
    \/ \E c \in Sweeps : \E i \in Positions(c) : TaskAcquire(c, i)
    \/ \E c \in Sweeps : \E i \in Positions(c) : \E response \in LoopResponses :
           HttpResponse(c, i, response)
    \/ \E c \in Sweeps : ChunkDone(c)
    \/ \E c \in Sweeps : GatherRaises(c)
    \/ \E creator_id \in Creators : delete_creator(creator_id)

SpecLoop == InitLoop /\ [][NextLoop]_vars

\* --- A sweep of poll_all_active_posts (the cron endpoint or the scheduler)
\* --- and a manual poll of one post, started in any order and at any moment
\* --- of each other, over a store of MaxPosts freshly added posts.
InitRace ==
    /\ posts = [id \in PostIds |-> FreshPost(CreatorOf(id))]
    /\ snapshots = [id \in PostIds |-> scheduled_snapshot(id, 0)]
    /\ clock = 0
    /\ horizon = clock + MaxElapsed * BackoffTicks
    /\ APIFY_TOKEN = TRUE
    /\ IS_POSTGRES \in BOOLEAN
    /\ FETCH_RETRY_COUNT \in {1, MaxRetry}
    /\ POLL_BATCH_SIZE = DefaultBatchSize
    /\ APIFY_MAX_CONCURRENT_RUNS = DefaultConcurrentRuns
    /\ DAILY_RUN_HOUR = DefaultRunHour
    /\ CRON_SECRET = NoSecret
    /\ loop = NoLoop
    /\ manual = NoManual
    /\ Seeded
    /\ Idle

NextRace ==
    \/ Tick
    \/ \E c \in Sweeps : PollAllActivePosts(c)
    \/ \E c \in Sweeps : ChunkRun(c)
    \/ \E c \in Sweeps : \E i \in Positions(c) : TaskAcquire(c, i)
    \/ \E c \in Sweeps : \E i \in Positions(c) : \E response \in BatchResponses :
           HttpResponse(c, i, response)
    \/ \E c \in Sweeps : \E i \in Positions(c) : Wake(c, i)
    \/ \E c \in Sweeps : ChunkDone(c)
    \/ \E post_id \in PostIds : poll_now(post_id)
    \/ \E response \in BatchResponses : ManualHttpResponse(response)
    \/ ManualWake

SpecRace == InitRace /\ [][NextRace]_vars

\* --- The store from its creation on: posts are added one by one and in bulk,
\* --- under URLs that repeat, while sweeps poll them and creators are deleted.
\* --- No more than MaxPosts ids are given out; the time that passes is not
\* --- followed.
BulkTexts == UNION { [1..n -> Urls \cup {BadLine}] : n \in 1..MaxLines }

InitAdd ==
    /\ posts = << >>
    /\ snapshots = << >>
    /\ post_url = << >>
    /\ last_id = 0
    /\ campaigns = {}
    /\ creators = {}
    /\ reply = NoReply
    /\ clock = 0
    /\ horizon = clock + MaxElapsed * BackoffTicks
    /\ APIFY_TOKEN = TRUE
    /\ IS_POSTGRES \in BOOLEAN
    /\ FETCH_RETRY_COUNT = 1
    /\ POLL_BATCH_SIZE = DefaultBatchSize
    /\ APIFY_MAX_CONCURRENT_RUNS = DefaultConcurrentRuns
    /\ DAILY_RUN_HOUR = DefaultRunHour
    /\ CRON_SECRET = NoSecret
    /\ loop = NoLoop
    /\ manual = NoManual
    /\ Idle

NextAdd ==
    \/ \E url \in Urls : add_post(url)
    \/ \E c \in Sweeps : \E lines \in BulkTexts : bulk_add_posts(c, lines)
    \/ \E c \in Sweeps : PollAllActivePosts(c)
    \/ \E c \in Sweeps : ChunkRun(c)
    \/ \E c \in Sweeps : \E i \in Positions(c) : TaskAcquire(c, i)
    \/ \E c \in Sweeps : \E i \in Positions(c) : \E response \in LoopResponses :
           HttpResponse(c, i, response)
    \/ \E c \in Sweeps : ChunkDone(c)
    \/ \E c \in Sweeps : GatherRaises(c)
    \/ \E creator_id \in Creators : delete_creator(creator_id)

SpecAdd == InitAdd /\ [][NextAdd]_vars

\* --- The dashboard over every history that one post can have after
\* --- MaxHistory polls within MaxTime seconds of its creation: the placeholder,
\* --- then snapshots of failed polls and of polls that gave some or all of the
\* --- metrics (a zero included), with timestamps in any order and possibly
\* --- equal.
MaxHistory == 2
MaxTime == 2

BoardPost == 1

BoardSnapshots ==
    { [post_id |-> BoardPost, fetched_at |-> at, likes |-> NULL, comments |-> NULL,
       views |-> NULL, source_status |-> "error",
       source_error |-> << [attempt |-> 1, exc |-> "Apify actor returned no items"] >>] :
        at \in 0..MaxTime }
    \cup { row \in [post_id : {BoardPost}, fetched_at : 0..MaxTime, likes : {NULL, 0, 5},
                    comments : {NULL, 2}, views : {NULL, 9}, source_status : {"ok:apify"},
                    source_error : {NoError}] :
             ~AllNone(row) }

InitBoard ==
    /\ posts = [id \in {BoardPost} |-> FreshPost(CreatorOf(id))]
    /\ \E n \in 0..MaxHistory : \E polls \in [1..n -> BoardSnapshots] :
           snapshots = << scheduled_snapshot(BoardPost, 0) >> \o polls
    /\ clock = MaxTime * TicksPerSec
    /\ horizon = clock
    /\ APIFY_TOKEN = TRUE
    /\ IS_POSTGRES \in BOOLEAN
    /\ FETCH_RETRY_COUNT = 1
    /\ POLL_BATCH_SIZE = DefaultBatchSize
    /\ APIFY_MAX_CONCURRENT_RUNS = DefaultConcurrentRuns
    /\ DAILY_RUN_HOUR = DefaultRunHour
    /\ CRON_SECRET = NoSecret
    /\ loop = NoLoop
    /\ manual = NoManual
    /\ Seeded
    /\ Idle

NextBoard == dashboard

SpecBoard == InitBoard /\ [][NextBoard]_vars

\* --- fetch_metrics_from_apify on every first item whose count fields are
\* --- absent, zero or positive (comments also as a list, empty or not), and on
\* --- the answers without a usable item.
Items ==
    [videoPlayCount : {JNull, JInt(0), JInt(9)}, videoViewCount : {JNull, JInt(0), JInt(9)},
     playCount : {JNull, JInt(0), JInt(9)}, likesCount : {JNull, JInt(0), JInt(5)},
     likes : {JNull, JInt(0), JInt(5)}, commentsCount : {JNull, JInt(0), JInt(2)},
     comments : {JNull, JInt(0), JList(0), JList(2)}]

ItemResponses ==
    Responses \cup { [status_code |-> 200, kind |-> "items", item |-> item] : item \in Items }

\* One store, configuration and idle process for the runs of a function on
\* its own.
Standalone ==
    /\ posts = [id \in {BoardPost} |-> FreshPost(CreatorOf(id))]
    /\ snapshots = << scheduled_snapshot(BoardPost, 0) >>
    /\ clock = 0
    /\ horizon = clock
    /\ APIFY_TOKEN = TRUE
    /\ IS_POSTGRES \in BOOLEAN
    /\ FETCH_RETRY_COUNT = 1
    /\ POLL_BATCH_SIZE = DefaultBatchSize
    /\ APIFY_MAX_CONCURRENT_RUNS = DefaultConcurrentRuns
    /\ DAILY_RUN_HOUR = DefaultRunHour
    /\ CRON_SECRET = NoSecret
    /\ loop = NoLoop
    /\ manual = NoManual
    /\ Seeded
    /\ NoSweep

InitItem ==
    /\ Standalone
    /\ arg \in ItemResponses
    /\ out = NoResult

\* response.json() has arrived: the rest of fetch_metrics_from_apify.
fetch_metrics_from_apify ==
    /\ out = NoResult
    /\ out' = ApifyOutcome(arg)
    /\ UNCHANGED << posts, snapshots, clock, environment, creation, board, arg, horizon, loop,
                    manual, rpc, post_ids, start, semaphore, task, called >>

NextItem == fetch_metrics_from_apify

SpecItem == InitItem /\ [][NextItem]_vars

\* --- coerce_int on every kind of JSON value: null, booleans, integers,
\* --- floats (finite, infinite, NaN), lists, and every string of at most
\* --- MaxText characters of Chars whose number stays within MaxResult, besides
\* --- the strings the documentation names.
MaxText == 4
MaxResult == 2000000000

Chars == {" ", ",", ".", "0", "1", "4", "k", "M", "a", "sup2"}

Texts == UNION { [1..n -> Chars] : n \in 0..MaxText }

Examples ==
    { << "1", ",", "2", "3", "4" >>, << "1", "2", ".", "5", "k" >>, << "3", "m" >>,
      << "a", "b", "c" >>, << "2", "B" >>, << ".", "5", "k" >>, << "1", ".", "k" >> }

\* The number of the string stays within MaxResult.
InRange(text) ==
    LET cleaned == lower(replace_commas(strip(text)))
        match == compact_match(cleaned)
    IN  IF match.matched
        THEN digits_value(match.whole \o match.fraction) <= MaxResult \div Multiplier(match.unit)
        ELSE TRUE

Values ==
    {JNull, JBool(TRUE), JBool(FALSE), JInf(1), JInf(0 - 1), JNaN, JList(0), JList(2)}
    \cup { JInt(n) : n \in {0 - 3, 0, 7} }
    \cup { JFloat(halves) : halves \in {0 - 5, 0 - 1, 0, 1, 5, 14} }
    \cup { JStr(text) : text \in { t \in Texts \cup Examples : InRange(t) } }

InitCoerce ==
    /\ Standalone
    /\ arg \in Values
    /\ out = NoResult

\* One call coerce_int(arg).
call_coerce_int ==
    /\ out = NoResult
    /\ out' = coerce_int(arg)
    /\ UNCHANGED << posts, snapshots, clock, environment, creation, board, arg, horizon, loop,
                    manual, rpc, post_ids, start, semaphore, task, called >>

NextCoerce == call_coerce_int

SpecCoerce == InitCoerce /\ [][NextCoerce]_vars

\* --- extract_metrics_from_html.  A page is a sequence of fragments, set apart
\* --- by markup that no pattern matches or spans, and the statistics of one
\* --- ld+json block, all on one line.  The texts of numbers hold no space.
MaxFragments == 2
MaxStats == 2

\* "key":digits, or "key":{"count":digits when nested.
KeyFragment(key, nested, digits) == [t |-> "key", key |-> key, nested |-> nested, digits |-> digits]

\* number, a space and word, as in >1.5k likes<.
PhraseFragment(number, word) == [t |-> "phrase", number |-> number, word |-> word]

\* content="likes likes, comments comments
DescriptionFragment(likes, comments) == [t |-> "description", likes |-> likes, comments |-> comments]

\* {"interactionType":"name","userInteractionCount":count}, where count is the
\* JSON token: json is its value for json.loads and digits the decimal digits
\* the token begins with.
Stat(name, json, digits) == [name |-> name, json |-> json, digits |-> digits]

\* The patterns of re.search, each with one group.
Flat(key) == [t |-> "flat", key |-> key, words |-> {}]
Nested(key) == [t |-> "nested", key |-> key, words |-> {}]
ContentLikes == [t |-> "content_likes", key |-> "", words |-> {}]
LikesThenComments == [t |-> "likes_comments", key |-> "", words |-> {}]
NumberComments == [t |-> "number_comments", key |-> "", words |-> {}]
WatchAction == [t |-> "watch_action", key |-> "", words |-> {}]
Compact(words) == [t |-> "compact", key |-> "", words |-> words]

NoGroup == [found |-> FALSE, group |-> << >>]

Group(text) == [found |-> TRUE, group |-> text]

\* ([\d,]+) before \s+comments: the search starts the group at the leftmost
\* place from which digits and commas run up to the space.
DigitRun(text) ==
    LET starts == { p \in 1..Len(text) :
                        \A k \in p..Len(text) : text[k] \in Decimals \cup {","} }
    IN  IF starts = {} THEN NoGroup
        ELSE Group(SubSeq(text, CHOOSE p \in starts : \A q \in starts : p <= q, Len(text)))

\* ([0-9][0-9,\.]*\s*[kmb]?) before \s+ and the word, letters of either case.
CompactRun(text) ==
    LET starts == { p \in 1..Len(text) :
                        /\ text[p] \in Decimals
                        /\ \A k \in (p + 1)..(Len(text) - 1) : text[k] \in Decimals \cup {",", "."}
                        /\ p < Len(text) =>
                               text[Len(text)] \in Decimals \cup {",", ".", "k", "m", "b", "K", "M", "B"} }
    IN  IF starts = {} THEN NoGroup
        ELSE Group(SubSeq(text, CHOOSE p \in starts : \A q \in starts : p <= q, Len(text)))

\* The match of a pattern within one fragment.
MatchIn(fragment, pattern) ==
    IF pattern.t \in {"flat", "nested"}
    THEN IF /\ fragment.t = "key"
            /\ fragment.key = pattern.key
            /\ fragment.nested = (pattern.t = "nested")
         THEN Group(fragment.digits) ELSE NoGroup
    ELSE IF pattern.t = "content_likes"
    THEN IF fragment.t = "description" /\ DigitRun(fragment.likes) = Group(fragment.likes)
         THEN Group(fragment.likes) ELSE NoGroup
    ELSE IF pattern.t = "likes_comments"
    THEN IF fragment.t = "description" /\ DigitRun(fragment.comments) = Group(fragment.comments)
         THEN Group(fragment.comments) ELSE NoGroup
    ELSE IF pattern.t = "number_comments"
    THEN IF fragment.t = "description" THEN DigitRun(fragment.comments)
         ELSE IF fragment.t = "phrase" /\ fragment.word = "comments" THEN DigitRun(fragment.number)
         ELSE NoGroup
    ELSE IF pattern.t = "compact"
    THEN IF fragment.t = "phrase" /\ fragment.word \in pattern.words
         THEN CompactRun(fragment.number)
         ELSE IF fragment.t = "description" /\ "likes" \in pattern.words
         THEN CompactRun(fragment.likes)
         ELSE IF fragment.t = "description" /\ "comments" \in pattern.words
         THEN CompactRun(fragment.comments)
         ELSE NoGroup
    ELSE NoGroup

\* "interactionStatistic"\s*:\s*\[.*?"WatchAction".*?"userInteractionCount"\s*:\s*(\d+)
\* over the block: the first count that begins with a digit, from the first
\* statistic of type "WatchAction" on.
WatchCount(stats) ==
    LET watch == { k \in 1..Len(stats) : stats[k].name = "WatchAction" }
        counts == { k \in 1..Len(stats) :
                        /\ stats[k].digits # << >>
                        /\ \E w \in watch : w <= k }
    IN  IF counts = {} THEN NoGroup
        ELSE Group(stats[CHOOSE k \in counts : \A j \in counts : k <= j].digits)

\* re.search(pattern, html, flags=re.IGNORECASE): the leftmost match.
search(pattern, html) ==
    IF pattern.t = "watch_action" THEN WatchCount(html.stats)
    ELSE LET hits == { k \in 1..Len(html.body) : MatchIn(html.body[k], pattern).found }
         IN  IF hits = {} THEN NoGroup
             ELSE MatchIn(html.body[CHOOSE k \in hits : \A j \in hits : k <= j], pattern)

\* extract_first_compact_number, and one turn of the loop of
\* extract_first_int: coerce_int of the group of the match, None without one.
extract_first_compact_number(html, pattern) ==
    LET match == search(pattern, html)
    IN  IF match.found THEN coerce_int(JStr(match.group)) ELSE JNull

extract_first_int(html, patterns) ==
    LET hits == { k \in 1..Len(patterns) : extract_first_compact_number(html, patterns[k]) # JNull }
    IN  IF hits = {} THEN JNull
        ELSE extract_first_compact_number(html, patterns[CHOOSE k \in hits : \A j \in hits : k <= j])

\* The words of the fields that the lowered name of an interaction type holds.
Mentions(name) ==
    IF name = "LikeAction" THEN {"like"}
    ELSE IF name = "CommentAction" THEN {"comment"}
    ELSE IF name = "WatchAction" THEN {"watch"}
    ELSE IF name = "LikeOrCommentAction" THEN {"like", "comment"}
    ELSE {}

JDict(fields) == [t |-> "dict", v |-> fields]

\* The loop of extract_json_ld_metrics over the statistics from the k-th on,
\* with the fields found so far.
RECURSIVE json_ld_stats(_, _, _)
json_ld_stats(stats, k, found) ==
    IF k > Len(stats) THEN JDict(found)
    ELSE LET value == coerce_int(stats[k].json)
             interaction_name == Mentions(stats[k].name)
         IN  IF IsRaised(value) THEN value
             ELSE IF value = JNull THEN json_ld_stats(stats, k + 1, found)
             ELSE IF "like" \in interaction_name /\ found.likes = NULL
             THEN json_ld_stats(stats, k + 1, [found EXCEPT !.likes = value.v])
             ELSE IF "comment" \in interaction_name /\ found.comments = NULL
             THEN json_ld_stats(stats, k + 1, [found EXCEPT !.comments = value.v])
             ELSE IF interaction_name \cap {"watch", "view", "play"} # {} /\ found.views = NULL
             THEN json_ld_stats(stats, k + 1, [found EXCEPT !.views = value.v])
             ELSE json_ld_stats(stats, k + 1, found)

extract_json_ld_metrics(html) == json_ld_stats(html.stats, 1, NoMetrics)

LikesPatterns ==
    << Nested("edge_media_preview_like"), Flat("like_count"), Flat("likesCount"), Nested("likes"),
       ContentLikes >>

CommentsPatterns ==
    << Nested("edge_media_to_comment"), Flat("comment_count"), Flat("commentsCount"),
       Nested("comments"), LikesThenComments, NumberComments >>

ViewsPatterns ==
    << Flat("video_view_count"), Flat("video_play_count"), Flat("videoPlayCount"),
       Flat("play_count"), Flat("videoViewCount"), WatchAction >>

LikesCompact == Compact({"likes", "like"})
CommentsCompact == Compact({"comments", "comment"})
ViewsCompact == Compact({"views", "view", "plays", "play"})

\* The end of extract_metrics_from_html, from what its calls give: those of
\* extract_first_int for likes, comments and views, those of
\* extract_first_compact_number for the same, made for a field that is still
\* None, and that of extract_json_ld_metrics.  The first exception among the
\* calls made leaves the function; otherwise each field is the first of its
\* three values that is not None.
metrics_from_calls(calls) ==
    LET made == {1, 2, 3, 7} \cup { 3 + k : k \in { j \in 1..3 : calls[j] = JNull } }
        raised == { k \in made : IsRaised(calls[k]) }
        field(k, json_ld) == IF calls[k] # JNull THEN calls[k].v
                             ELSE IF calls[3 + k] # JNull THEN calls[3 + k].v
                             ELSE json_ld
    IN  IF raised # {} THEN calls[CHOOSE k \in raised : \A j \in raised : k <= j]
        ELSE JDict([likes |-> field(1, calls[7].v.likes),
                    comments |-> field(2, calls[7].v.comments),
                    views |-> field(3, calls[7].v.views)])

extract_metrics_from_html(html) ==
    CHOOSE result \in
        { metrics_from_calls(<< likes, comments, views, likes_compact, comments_compact,
                                views_compact, json_ld >>) :
              likes \in {extract_first_int(html, LikesPatterns)},
              comments \in {extract_first_int(html, CommentsPatterns)},
              views \in {extract_first_int(html, ViewsPatterns)},
              likes_compact \in {extract_first_compact_number(html, LikesCompact)},
              comments_compact \in {extract_first_compact_number(html, CommentsCompact)},
              views_compact \in {extract_first_compact_number(html, ViewsCompact)},
              json_ld \in {extract_json_ld_metrics(html)} } : TRUE

\* --- extract_metrics_from_html over the pages of up to MaxFragments
\* --- fragments and a block of up to MaxStats statistics.
Fragments ==
    { KeyFragment("like_count", FALSE, << "3" >>), KeyFragment("likes", TRUE, << "4" >>),
      KeyFragment("commentsCount", FALSE, << "4", "8", "2" >>),
      KeyFragment("videoPlayCount", FALSE, << "9" >>),
      PhraseFragment(<< "1", ".", "5", "k" >>, "likes"), PhraseFragment(<< "1", ".", "5" >>, "comments"),
      PhraseFragment(<< "2", "M" >>, "views"),
      DescriptionFragment(<< "1", ",", "2" >>, << "7" >>) }

Stats ==
    { Stat("LikeAction", JInt(5), << "5" >>), Stat("CommentAction", JInt(6), << "6" >>),
      Stat("WatchAction", JStr(<< "1", "2" >>), << >>), Stat("WatchAction", JInt(8), << "8" >>),
      Stat("LikeAction", JInf(1), << "1" >>), Stat("LikeOrCommentAction", JInt(7), << "7" >>) }

Pages ==
    [body : UNION { [1..n -> Fragments] : n \in 0..MaxFragments },
     stats : UNION { [1..n -> Stats] : n \in 0..MaxStats }]

InitHtml ==
    /\ Standalone
    /\ arg \in Pages
    /\ out = NoResult

call_extract_metrics_from_html ==
    /\ out = NoResult
    /\ out' = extract_metrics_from_html(arg)
    /\ UNCHANGED << posts, snapshots, clock, environment, creation, board, arg, horizon, loop,
                    manual, rpc, post_ids, start, semaphore, task, called >>

NextHtml == call_extract_metrics_from_html

SpecHtml == InitHtml /\ [][NextHtml]_vars

\* --- poll_post of any id, through POST /api/poll-now, over the stores that
\* --- hold some of the ids, active or not: the id polled may be unknown.
PollRows(id) ==
    { [creator_id |-> CreatorOf(id), active |-> a, last_polled_at |-> NULL,
       poll_interval_sec |-> MaxInterval] : a \in {0, 1} }

PollStores ==
    UNION { { rows \in [S -> UNION { PollRows(id) : id \in S }] :
                \A id \in S : rows[id] \in PollRows(id) } : S \in SUBSET PostIds }

InitPoll ==
    /\ posts \in PollStores
    /\ snapshots = [k \in 1..Cardinality(DOMAIN posts) |->
                        scheduled_snapshot(Ascending(DOMAIN posts)[k], 0)]
    /\ clock = 0
    /\ horizon = clock + MaxElapsed * BackoffTicks
    /\ APIFY_TOKEN \in BOOLEAN
    /\ IS_POSTGRES \in BOOLEAN
    /\ FETCH_RETRY_COUNT \in {1, MaxRetry}
    /\ POLL_BATCH_SIZE = DefaultBatchSize
    /\ APIFY_MAX_CONCURRENT_RUNS = DefaultConcurrentRuns
    /\ DAILY_RUN_HOUR = DefaultRunHour
    /\ CRON_SECRET = NoSecret
    /\ loop = NoLoop
    /\ manual = NoManual
    /\ Seeded
    /\ Idle

NextPoll ==
    \/ Tick
    \/ \E post_id \in PostIds : poll_now(post_id)
    \/ \E response \in BatchResponses : ManualHttpResponse(response)
    \/ ManualWake

SpecPoll == InitPoll /\ [][NextPoll]_vars

\* --- POST /api/posts with every campaign name, creator handle and URL, from
\* --- the empty store on, between the two DELETE requests.  No more than
\* --- MaxPosts ids are given out.
Payloads == [campaign_name : Campaigns, creator_handle : Handles, post_url : Urls]

InitUrl ==
    /\ posts = << >>
    /\ snapshots = << >>
    /\ post_url = << >>
    /\ last_id = 0
    /\ reply = NoReply
    /\ campaigns = {}
    /\ creators = {}
    /\ clock = 0
    /\ horizon = clock
    /\ APIFY_TOKEN = TRUE
    /\ IS_POSTGRES \in BOOLEAN
    /\ FETCH_RETRY_COUNT = 1
    /\ POLL_BATCH_SIZE = DefaultBatchSize
    /\ APIFY_MAX_CONCURRENT_RUNS = DefaultConcurrentRuns
    /\ DAILY_RUN_HOUR = DefaultRunHour
    /\ CRON_SECRET = NoSecret
    /\ loop = NoLoop
    /\ manual = NoManual
    /\ Idle

NextUrl ==
    \/ \E payload \in Payloads : add_post_payload(payload)
    \/ \E creator_id \in Creators : delete_creator(creator_id)
    \/ delete_all_data

SpecUrl == InitUrl /\ [][NextUrl]_vars

\* --- POST /api/cron/daily, under every configured secret and every header
\* --- of up to MaxSecret characters, sent by anyone or by
\* --- scripts/trigger_daily.py, over the stores of MaxPosts posts that are
\* --- active or not.  Every fetch of the sweep succeeds.
MaxSecret == 2

\* The characters of a secret; " " is a character that str.strip() removes,
\* such as U+00A0, which a header value can carry at either end.
SecretChars == {"a", "b", " "}

SecretTexts == UNION { [1..n -> SecretChars] : n \in 0..MaxSecret }

\* The header X-Cron-Secret of a request: absent (None), or a text.
Headers == {JNull} \cup { JStr(text) : text \in SecretTexts }

\* The answer of the endpoint, and its state while it awaits the sweep.
Status(code) == [t |-> "status", v |-> code]
Awaited == [t |-> "await", v |-> 0]

\* (x_cron_secret or "")
OrEmpty(value) == IF value = JNull THEN << >> ELSE value.v

\* cron_daily without the comparison of line 772.
cron_daily_Unchecked(c, x_cron_secret) ==
    /\ out = NoResult
    /\ rpc[c] = "idle"
    /\ arg' = x_cron_secret
    /\ IF CRON_SECRET = << >>
       THEN /\ out' = Status(503)
            /\ UNCHANGED << rpc, post_ids, start, semaphore, task, called >>
       ELSE /\ poll_post_ids(c, Ascending(ActiveIds))
            /\ out' = Awaited
    /\ UNCHANGED << posts, snapshots, clock, environment, creation, board, horizon, loop, manual >>

\* cron_daily, lines 768-774, up to its await of poll_all_active_posts; the
\* call of poll_post_ids is call c.
cron_daily(c, x_cron_secret) ==
    /\ out = NoResult
    /\ rpc[c] = "idle"
    /\ arg' = x_cron_secret
    /\ IF CRON_SECRET = << >>
       THEN /\ out' = Status(503)
            /\ UNCHANGED << rpc, post_ids, start, semaphore, task, called >>
       ELSE IF strip(OrEmpty(x_cron_secret)) # CRON_SECRET
       THEN /\ out' = Status(401)
            /\ UNCHANGED << rpc, post_ids, start, semaphore, task, called >>
       ELSE /\ poll_post_ids(c, Ascending(ActiveIds))
            /\ out' = Awaited
    /\ UNCHANGED << posts, snapshots, clock, environment, creation, board, horizon, loop, manual >>

\* cron_daily, line 775: the sweep has returned.
cron_daily_return(c) ==
    /\ out = Awaited
    /\ rpc[c] \in {"done", "raised"}
    /\ out' = Status(IF rpc[c] = "done" THEN 200 ELSE 500)
    /\ UNCHANGED << posts, snapshots, clock, environment, creation, board, arg, horizon, loop,
                    manual, rpc, post_ids, start, semaphore, task, called >>

\* scripts/trigger_daily.py, main(): the request is sent when the CRON_SECRET
\* of its own environment, stripped, is not empty, with that text as header.
trigger_daily(c, secret) ==
    /\ strip(secret) # << >>
    /\ cron_daily(c, JStr(strip(secret)))

CronStores == { rows \in PollStores : DOMAIN rows = PostIds }

InitCron ==
    /\ posts \in CronStores
    /\ snapshots = [k \in 1..Cardinality(DOMAIN posts) |->
                        scheduled_snapshot(Ascending(DOMAIN posts)[k], 0)]
    /\ clock = 0
    /\ horizon = clock
    /\ APIFY_TOKEN = TRUE
    /\ IS_POSTGRES \in BOOLEAN
    /\ FETCH_RETRY_COUNT = 1
    /\ POLL_BATCH_SIZE = DefaultBatchSize
    /\ APIFY_MAX_CONCURRENT_RUNS = DefaultConcurrentRuns
    /\ DAILY_RUN_HOUR = DefaultRunHour
    /\ CRON_SECRET \in { strip(secret) : secret \in SecretTexts }
    /\ loop = NoLoop
    /\ manual = NoManual
    /\ Seeded
    /\ Idle

NextCron ==
    \/ \E c \in Sweeps : \E x_cron_secret \in Headers : cron_daily(c, x_cron_secret)
    \/ \E c \in Sweeps : \E secret \in SecretTexts : trigger_daily(c, secret)
    \/ \E c \in Sweeps : cron_daily_return(c)
    \/ \E c \in Sweeps : ChunkRun(c)
    \/ \E c \in Sweeps : \E i \in Positions(c) : TaskAcquire(c, i)
    \/ \E c \in Sweeps : \E i \in Positions(c) : \E response \in LoopResponses :
           HttpResponse(c, i, response)
    \/ \E c \in Sweeps : ChunkDone(c)

SpecCron == InitCron /\ [][NextCron]_vars

\* --- poll_all_active_posts over stores of 0 to MaxIds active posts, with
\* --- batch sizes up to MaxChunk and every cap up to MaxConcurrent; every
\* --- fetch succeeds, in any order the endpoint answers.
MaxIds == 12
MaxChunk == 5

InitChunks ==
    /\ \E n \in 0..MaxIds :
           /\ posts = [id \in 1..n |-> FreshPost(CreatorOf(id))]
           /\ snapshots = [id \in 1..n |-> scheduled_snapshot(id, 0)]
    /\ clock = 0
    /\ horizon = clock
    /\ APIFY_TOKEN = TRUE
    /\ IS_POSTGRES = FALSE
    /\ FETCH_RETRY_COUNT = 1
    /\ POLL_BATCH_SIZE \in 1..MaxChunk
    /\ APIFY_MAX_CONCURRENT_RUNS \in 1..MaxConcurrent
    /\ DAILY_RUN_HOUR = DefaultRunHour
    /\ CRON_SECRET = NoSecret
    /\ loop = NoLoop
    /\ manual = NoManual
    /\ Seeded
    /\ Idle

NextChunks ==
    \/ \E c \in Sweeps : PollAllActivePosts(c)
    \/ \E c \in Sweeps : ChunkRun(c)
    \/ \E c \in Sweeps : \E i \in Positions(c) : TaskAcquire(c, i)
    \/ \E c \in Sweeps : \E i \in Positions(c) : \E response \in LoopResponses :
           HttpResponse(c, i, response)
    \/ \E c \in Sweeps : ChunkDone(c)

SpecChunks == InitChunks /\ [][NextChunks]_vars

\* ------------------------------------------------------------------------
\* Properties
\* ------------------------------------------------------------------------
Tasks == { ci \in Sweeps \X PostIds : ci[2] \in Positions(ci[1]) }

TaskAt(ci) == task[ci[1]][ci[2]]

InFlight(c) == { i \in Positions(c) : task[c][i].pc \in {"http", "sleep"} }

ChunkIndex(i) == (i - 1) \div POLL_BATCH_SIZE

C2_InFlightBounded ==
    \A c \in Sweeps : Cardinality(InFlight(c)) <= Min(APIFY_MAX_CONCURRENT_RUNS, POLL_BATCH_SIZE)

\* A worker waits for the semaphore while the fetch holding the permit is in flight.
C2_Witness ==
    \E c \in Sweeps : \E i, j \in Positions(c) :
        /\ task[c][i].pc = "acquire"
        /\ task[c][j].pc \in {"http", "sleep"}
        /\ task[c][j].holds
        /\ semaphore[c] = 0

\* C3: no poll of a later chunk has started while a poll of an earlier chunk of
\* the same call has not ended.
C3_ChunksSequential ==
    \A c \in Sweeps : \A i, j \in Positions(c) :
        (ChunkIndex(i) < ChunkIndex(j) /\ task[c][j].pc # "new")
            => task[c][i].pc \in {"done", "raised"}

\* The poll of the second chunk is in flight after the poll of the first ended.
C3_Witness ==
    \E c \in Sweeps : \E i, j \in Positions(c) :
        /\ ChunkIndex(i) < ChunkIndex(j)
        /\ task[c][i].pc = "done"
        /\ Len(task[c][i].wrote) = 1
        /\ task[c][j].pc = "http"

ErrorRow(t) ==
    [post_id |-> t.post_id, fetched_at |-> t.now, likes |-> NULL, comments |-> NULL,
     views |-> NULL, source_status |-> "error", source_error |-> t.outcome.message]

\* C4: a fetch that failed for good is recorded as an "error" snapshot and is not
\* raised, neither by poll_post nor by poll_post_ids, and when the batch has
\* returned every other item of the call has its own snapshot.  Items whose post
\* has been deleted in the meantime are not counted among the other items.
C4_FailureIsolated ==
    \A c \in Sweeps : \A i \in Positions(c) :
        task[c][i].outcome.kind = "failure" =>
            /\ task[c][i].pc = "done"
            /\ task[c][i].wrote = << ErrorRow(task[c][i]) >>
            /\ rpc[c] # "raised"
            /\ rpc[c] = "done" =>
                   \A j \in Positions(c) :
                       task[c][j].post_id \in DOMAIN posts => Len(task[c][j].wrote) = 1

\* C5: a row written by a poll has status "ok:<provider>", the metrics the fetch
\* returned and no error text when the fetch succeeded, and status "error", the
\* failure message and no metrics when it failed; a poll writes no other row.
C5_SnapshotMatchesOutcome ==
    /\ \A ci \in Tasks :
           LET t == TaskAt(ci)
           IN  \A k \in 1..Len(t.wrote) :
                   LET row == t.wrote[k]
                   IN  \/ /\ t.outcome.kind = "success"
                          /\ row.source_status = "ok:" \o t.outcome.provider
                          /\ row.likes = t.outcome.metrics.likes
                          /\ row.comments = t.outcome.metrics.comments
                          /\ row.views = t.outcome.metrics.views
                          /\ row.source_error = NoError
                       \/ /\ t.outcome.kind = "failure"
                          /\ row.source_status = "error"
                          /\ row.source_error = t.outcome.message
                          /\ row.source_error # NoError
                          /\ row.likes = NULL /\ row.comments = NULL /\ row.views = NULL
    /\ \A k \in 1..Len(snapshots) :
           \/ snapshots[k].source_status = "scheduled" /\ snapshots[k].fetched_at = 0
           \/ \E ci \in Tasks : TaskAt(ci).wrote = << snapshots[k] >>

\* Both kinds of row are reached: an "ok" row with a metric absent, and an "error" row.
C5_Witness ==
    \E ci \in Tasks :
        /\ TaskAt(ci).outcome.kind = "success"
        /\ TaskAt(ci).outcome.metrics.views = NULL
        /\ Len(TaskAt(ci).wrote) = 1
        /\ snapshots[Len(snapshots)] = TaskAt(ci).wrote[1]

\* C6: after a completed poll the row it wrote carries the second in which its
\* fetch started, and so does last_polled_at of the post, on success and failure.
C6_TimestampIsFetchStart ==
    \A ci \in Tasks :
        LET t == TaskAt(ci)
        IN  t.wrote # << >> =>
                /\ t.started # NULL
                /\ t.wrote[1].fetched_at = t.started \div TicksPerSec
                /\ t.post_id \in DOMAIN posts =>
                       posts[t.post_id].last_polled_at = t.started \div TicksPerSec

\* A poll has ended, after a failure and after a success, in a later second
\* than the one its fetch started in.
C6_Witness ==
    \E ci, cj \in Tasks :
        /\ TaskAt(ci).outcome.kind = "failure"
        /\ TaskAt(cj).outcome.kind = "success"
        /\ TaskAt(ci).updated = 1 /\ TaskAt(cj).updated = 1
        /\ {TaskAt(ci).post_id, TaskAt(cj).post_id} \subseteq DOMAIN posts
        /\ posts[TaskAt(ci).post_id].last_polled_at < utc_now_iso
        /\ posts[TaskAt(cj).post_id].last_polled_at < utc_now_iso

\* C7: the provider is called at most FETCH_RETRY_COUNT times; a success comes
\* with the call after the failed ones and ends the fetch, a failure only after
\* FETCH_RETRY_COUNT failed calls.
C7_AttemptsBounded ==
    \A ci \in Tasks :
        LET t == TaskAt(ci)
        IN  /\ t.calls <= FETCH_RETRY_COUNT
            /\ t.outcome.kind = "success" =>
                   t.calls = Len(t.errors) + 1 /\ t.pc \in {"done", "raised"}
            /\ t.outcome.kind = "failure" =>
                   /\ t.calls = FETCH_RETRY_COUNT
                   /\ Len(t.errors) = FETCH_RETRY_COUNT
                   /\ t.pc \in {"done", "raised"}
            /\ t.pc \in {"http", "sleep"} => Len(t.errors) < FETCH_RETRY_COUNT

\* The provider failed twice and succeeded at the third of three allowed attempts.
C7_Witness ==
    \E ci \in Tasks :
        /\ FETCH_RETRY_COUNT = 3
        /\ TaskAt(ci).outcome.kind = "success"
        /\ TaskAt(ci).calls = 3

\* C8: the failure message is made of the diagnostics of the first
\* min(FETCH_RETRY_COUNT, 4) attempts in attempt order and nothing else.
C8_MessageIsFirstDiagnostics ==
    \A ci \in Tasks :
        LET t == TaskAt(ci)
            message == t.outcome.message
        IN  t.outcome.kind = "failure" =>
                /\ Len(message) = Min(FETCH_RETRY_COUNT, ErrorsKept)
                /\ \A k \in 1..Len(message) :
                       message[k].attempt = k /\ message[k] = t.errors[k]
                /\ FETCH_RETRY_COUNT <= ErrorsKept => message = t.errors

\* Five attempts failed with different diagnostics and the message keeps four.
C8_Witness ==
    \E ci \in Tasks :
        /\ TaskAt(ci).outcome.kind = "failure"
        /\ Len(TaskAt(ci).errors) = ErrorsKept + 1
        /\ Len(TaskAt(ci).outcome.message) = ErrorsKept
        /\ TaskAt(ci).errors[1].exc # TaskAt(ci).errors[2].exc

\* C9 as stated: without a token the fetch fails after a single provider attempt
\* and without any back-off wait.
C9_NoTokenNotRetried ==
    \A ci \in Tasks :
        ~APIFY_TOKEN => TaskAt(ci).calls <= 1 /\ TaskAt(ci).slept = << >>

\* C10: poll_due_posts selects exactly the active posts that have no
\* last_polled_at, or an unparseable one, or whose interval has elapsed at the
\* time of the call.
StatedDue(rows, now) ==
    { id \in DOMAIN rows :
        /\ rows[id].active = 1
        /\ \/ rows[id].last_polled_at = NULL
           \/ rows[id].last_polled_at = BAD
           \/ /\ rows[id].last_polled_at >= 0
              /\ now >= (rows[id].last_polled_at + rows[id].poll_interval_sec) * TicksPerSec }

C10_SelectsExactlyDue ==
    \A c \in Sweeps : rpc[c] # "idle" =>
        /\ { post_ids[c][i] : i \in Positions(c) } = StatedDue(called[c].posts, called[c].at)
        /\ Len(post_ids[c]) = Cardinality(StatedDue(called[c].posts, called[c].at))

\* Called one second before the interval of post 1 elapses: post 1 is left out
\* while post 2, never polled, is selected.
C10_Witness ==
    \E c \in Sweeps :
        /\ rpc[c] # "idle"
        /\ called[c].posts[1].active = 1
        /\ called[c].posts[1].last_polled_at = 0
        /\ called[c].posts[1].poll_interval_sec = MinInterval
        /\ called[c].at = (MinInterval - 1) * TicksPerSec
        /\ called[c].posts[2].active = 1
        /\ called[c].posts[2].last_polled_at = NULL
        /\ post_ids[c] = << 2 >>

\* ------------------------------------------------------------------------
\* The scheduler loop: C11 to C13
\* ------------------------------------------------------------------------
\* The first occurrence of the configured hour after the instant t.
NextOccurrence(t) ==
    LET day == t \div DayTicks
        runs == { d * DayTicks + DAILY_RUN_HOUR * HourSeconds * TicksPerSec :
                    d \in day..(day + 1) }
    IN  CHOOSE o \in runs : o > t /\ \A other \in runs : other > t => o <= other

\* C11: the scheduler loop is never ended by a sweep.  After every sweep,
\* whether it returned or raised (an error of the store included), the loop is
\* back in its sleep, armed at that moment until the next occurrence of the
\* configured hour (at most the one-second floor of the sleep later), and it
\* sweeps again only once that sleep is over.
C11_LoopSurvivesSweep ==
    /\ [](loop.pc \in {"sleeping", "sweeping", "cancelled"})
    /\ [](loop.pc = "sleeping" =>
            /\ NextOccurrence(loop.armed) <= loop.wake
            /\ loop.wake < NextOccurrence(loop.armed) + TicksPerSec)
    /\ [][/\ loop'.sweeps # loop.sweeps =>
                /\ loop.pc = "sleeping"
                /\ clock >= loop.wake
                /\ loop'.pc = "sweeping" \/ (loop'.pc = "sleeping" /\ loop'.armed = clock')
          /\ (loop.pc = "sweeping" /\ loop'.pc # "sweeping") =>
                \/ loop'.pc = "cancelled"
                \/ loop'.pc = "sleeping" /\ loop'.armed = clock']_vars

\* A second sweep is under way after the first one raised and was caught.
C11_Witness ==
    /\ loop.pc = "sweeping"
    /\ loop.sweeps = MaxSweeps
    /\ loop.swallowed >= 1
    /\ rpc[loop.call] = "running"

\* C12: shutdown stops the loop in its sleep and in its sweep alike, and once
\* the loop is cancelled no sweep is started and no coroutine of a sweep
\* starts a fetch.
C12_NothingAfterShutdown ==
    [][loop.pc = "cancelled" =>
          /\ loop' = loop
          /\ \A c \in Sweeps : \A i \in Positions(c) :
                 task'[c][i].fetches = task[c][i].fetches]_vars

\* C13: every sweep of the loop polls every post that was active when the
\* sweep read the store, whatever its last_polled_at and interval, and no
\* inactive post: once the sweep has ended and none of its coroutines is left,
\* each post that was active at its start and is still stored has been fetched
\* once by it, and it has fetched nothing else.
C13_SweepPollsAllActive ==
    (/\ loop.pc = "sleeping"
     /\ loop.sweeps >= 1
     /\ post_ids[loop.call] # << >>
     /\ rpc[loop.call] \in {"done", "raised"}
     /\ Alive(loop.call) = {}) =>
        LET c == loop.call
            at_start == called[c].posts
            active == { id \in DOMAIN at_start : at_start[id].active = 1 }
        IN  /\ \A id \in active \cap DOMAIN posts :
                   \E i \in Positions(c) : task[c][i].post_id = id /\ task[c][i].fetches = 1
            /\ \A i \in Positions(c) : task[c][i].fetches > 0 => task[c][i].post_id \in active

\* ------------------------------------------------------------------------
\* The snapshot history: C14 to C16
\* ------------------------------------------------------------------------
\* C14: the snapshots of a post are in the order of their fetch timestamps: no
\* snapshot is appended with a fetched_at earlier than that of a snapshot the
\* same post already has.
C14_HistoryMonotone ==
    \A i \in 1..Len(snapshots) : \A j \in 1..Len(snapshots) :
        (i < j /\ snapshots[i].post_id = snapshots[j].post_id) =>
            snapshots[i].fetched_at <= snapshots[j].fetched_at

\* C15: the polling core only appends to the snapshot history: every step that
\* is not one of the two DELETE requests leaves every stored snapshot in its
\* place and unchanged.
C15_PollingOnlyAppends ==
    [][\/ delete_all_data
       \/ \E creator_id \in Creators : delete_creator(creator_id)
       \/ /\ Len(snapshots') >= Len(snapshots)
          /\ SubSeq(snapshots', 1, Len(snapshots)) = snapshots]_vars

\* A poll has written its snapshot behind the placeholders of all the posts.
C15_Witness ==
    /\ Len(snapshots) > MaxPosts
    /\ \A id \in PostIds : snapshots[id] = scheduled_snapshot(id, 0)
    /\ snapshots[MaxPosts + 1].source_status # "scheduled"
    /\ \E c \in Sweeps : \E i \in Positions(c) :
           task[c][i].wrote = << snapshots[MaxPosts + 1] >>

\* The positions in the history of the placeholders of a post.
Placeholders(history, id) ==
    { k \in 1..Len(history) :
        history[k].post_id = id /\ history[k].source_status = "scheduled" }

\* C16: every post that add_post or bulk_add_posts has created has exactly one
\* placeholder snapshot, with status "scheduled", no metrics and no error
\* text; the placeholder is there in the step that creates the post, before
\* any snapshot of a fetch and before any coroutine has fetched the post; a
\* request that fails leaves the two tables as they were, and no placeholder is
\* ever stored without its post.
C16_PlaceholderWithCreation ==
    /\ [](/\ \A id \in DOMAIN posts :
                \E k \in 1..Len(snapshots) :
                    /\ Placeholders(snapshots, id) = {k}
                    /\ snapshots[k] = scheduled_snapshot(id, snapshots[k].fetched_at)
                    /\ \A j \in 1..Len(snapshots) : snapshots[j].post_id = id => k <= j
          /\ \A k \in 1..Len(snapshots) :
                snapshots[k].source_status = "scheduled" => snapshots[k].post_id \in DOMAIN posts)
    /\ [][/\ \A id \in DOMAIN posts' \ DOMAIN posts :
                /\ Cardinality(Placeholders(snapshots', id)) = 1
                /\ \A c \in Sweeps : \A i \in 1..Len(post_ids'[c]) :
                       task'[c][i].post_id = id => task'[c][i].fetches = 0
          /\ (reply' # reply /\ reply'.status # 200) =>
                (posts' = posts /\ snapshots' = snapshots)]_vars

\* A bulk request has created one post and turned down the duplicate of an
\* earlier one; the new post has been polled behind its placeholder.
C16_Witness ==
    /\ reply.status = 200
    /\ Len(reply.inserted) = 1
    /\ reply.errors = 1
    /\ Cardinality(DOMAIN posts) = 2
    /\ \E k \in 1..Len(snapshots) :
           snapshots[k].post_id = reply.inserted[1] /\ snapshots[k].source_status = "ok:apify"

\* ------------------------------------------------------------------------
\* The dashboard and the normaliser: C17 to C20
\* ------------------------------------------------------------------------
\* C17: for each of likes, comments and views, the dashboard row of an active
\* post shows the value of a snapshot of the post that has the field and whose
\* fetched_at no other snapshot with the field exceeds; it shows null only
\* when no snapshot of the post has the field.
C17_ShowsLatestKnown ==
    \A id \in DOMAIN board : \A field \in {"likes", "comments", "views"} :
        LET known == WithField(snapshots, id, field)
        IN  IF known = {} THEN board[id][field] = NULL
            ELSE \E k \in known :
                     /\ board[id][field] = snapshots[k][field]
                     /\ \A j \in known : snapshots[j].fetched_at <= snapshots[k].fetched_at

\* The newest snapshot of the post has no likes (a failed poll) and the
\* dashboard shows the likes of an older one.
C17_Witness ==
    /\ BoardPost \in DOMAIN board
    /\ board[BoardPost].source_status = "error"
    /\ board[BoardPost].likes = 5
    /\ \E k \in OfPost(snapshots, BoardPost) :
           /\ snapshots[k].likes = NULL
           /\ snapshots[k].fetched_at = MaxTime
           /\ \A j \in OfPost(snapshots, BoardPost) : j # k => snapshots[j].fetched_at < MaxTime

\* The keys under which the item can report a metric.
MetricKeys(metric) ==
    CASE metric = "views" -> {"videoPlayCount", "videoViewCount", "playCount"}
      [] metric = "likes" -> {"likesCount", "likes"}
      [] metric = "comments" -> {"commentsCount", "comments"}

\* The item reports the metric, and reports nothing but zero for it.
ReportsZero(item, metric) ==
    /\ \E key \in MetricKeys(metric) : item[key] # JNull
    /\ \A key \in MetricKeys(metric) : item[key] \in {JNull, JInt(0), JList(0)}

ReportsNothing(item, metric) == \A key \in MetricKeys(metric) : item[key] = JNull

\* C18: a metric that the first item reports as 0 is 0 in the metrics the
\* fetch returns, and a metric the item does not report is null in them, for
\* each of likes, comments and views.
C18_ZeroIsNotAbsence ==
    (out # NoResult /\ arg.status_code < 400 /\ arg.kind = "items") =>
        \A metric \in {"likes", "comments", "views"} :
            /\ ReportsZero(arg.item, metric) => (out.ok /\ out.metrics[metric] = 0)
            /\ (ReportsNothing(arg.item, metric) /\ out.ok) => out.metrics[metric] = NULL

\* C19: coerce_int returns an integer or null for every input; no call ends
\* in an exception.
C19_NeverThrows == out # NoResult => out.t \in {"int", "null"}

\* The result the documentation of the normaliser gives for a value.
StatedResult(value) ==
    IF value.t \in {"null", "bool"} THEN JNull
    ELSE IF value.t = "int" THEN JInt(value.v)
    ELSE IF value.t = "float" THEN JInt(int_of_halves(value.v))
    ELSE
        LET cleaned == lower(replace_commas(strip(value.v)))
            match == compact_match(cleaned)
        IN  IF match.matched
            THEN JInt((digits_value(match.whole \o match.fraction) * Multiplier(match.unit))
                          \div Power(10, Len(match.fraction)))
            ELSE IF AllDecimal(cleaned) THEN JInt(digits_value(cleaned))
            ELSE JNull

\* C20: coerce_int gives null for null and booleans, the truncated integer
\* for a number, the integer for a string of digits with commas and
\* surrounding whitespace, the decimal times 1e3, 1e6 or 1e9 truncated to an
\* integer for <decimal>[kmb], and null for every other string.
C20_StatedMapping ==
    (out # NoResult /\ arg.t \in {"null", "bool", "int", "float", "str"}) =>
        out = StatedResult(arg)

\* ------------------------------------------------------------------------
\* Pacing, retries and partition: C21 to C26
\* ------------------------------------------------------------------------
\* C21: no post is polled more often than its poll interval allows: the fetch
\* start times of any two polls of a post, as their snapshots record them, are
\* at least poll_interval_sec apart, whatever the polls gave.
C21_PollsIntervalApart ==
    \A i \in 1..Len(snapshots) : \A j \in 1..Len(snapshots) :
        (/\ i < j
         /\ snapshots[i].post_id = snapshots[j].post_id
         /\ snapshots[i].post_id \in DOMAIN posts
         /\ snapshots[i].source_status # "scheduled"
         /\ snapshots[j].source_status # "scheduled") =>
            \/ snapshots[j].fetched_at - snapshots[i].fetched_at
                   >= posts[snapshots[i].post_id].poll_interval_sec
            \/ snapshots[i].fetched_at - snapshots[j].fetched_at
                   >= posts[snapshots[i].post_id].poll_interval_sec

\* C22: after failed attempt k < FETCH_RETRY_COUNT the fetch sleeps 1.5 * k
\* seconds and starts attempt k + 1 no earlier; after the failure of the last
\* attempt and after a successful attempt it returns in the same step, without
\* a wait.
C22_BackoffWaits ==
    /\ [](\A ci \in Tasks :
              LET t == TaskAt(ci)
              IN  /\ \A k \in 1..Len(t.slept) : t.slept[k] = BackoffTicks * k
                  /\ Len(t.slept) = Min(Len(t.errors), FETCH_RETRY_COUNT - 1)
                  /\ t.outcome.kind = "success" => Len(t.slept) = Len(t.errors)
                  /\ t.pc = "sleep" => t.outcome.kind = "none")
    /\ [][\A ci \in Tasks :
              LET t == TaskAt(ci)
                  u == task'[ci[1]][ci[2]]
              IN  /\ (t.pc # "sleep" /\ u.pc = "sleep") =>
                         /\ Len(u.errors) = Len(t.errors) + 1
                         /\ Len(u.errors) < FETCH_RETRY_COUNT
                         /\ u.wake = clock + BackoffTicks * Len(u.errors)
                  /\ (t.pc = "sleep" /\ u.pc # "sleep") =>
                         /\ clock >= t.wake
                         /\ u.calls = t.calls + 1
                  /\ (Len(u.errors) = Len(t.errors) + 1 /\ Len(u.errors) >= FETCH_RETRY_COUNT) =>
                         u.pc \in {"done", "raised"}]_vars

\* The last of three attempts has failed after waits of 1.5 and 3 seconds, and
\* the fetch has returned its failure without a third wait.
C22_Witness ==
    \E ci \in Tasks :
        /\ FETCH_RETRY_COUNT = 3
        /\ TaskAt(ci).outcome.kind = "failure"
        /\ TaskAt(ci).slept = << BackoffTicks, 2 * BackoffTicks >>
        /\ Len(TaskAt(ci).errors) = 3

\* The positions of a list of n ids that its first k chunks of size b cover.
Covered(n, b, k) == 1..Min(k * b, n)

\* C23: poll_post_ids cuts its list into consecutive chunks, in order: every
\* gather takes the ids that follow those taken before, exactly
\* POLL_BATCH_SIZE of them or, in the last chunk, the 1 to POLL_BATCH_SIZE
\* that are left; n ids make ceil(n / POLL_BATCH_SIZE) chunks; and a chunk of
\* at most min(APIFY_MAX_CONCURRENT_RUNS, POLL_BATCH_SIZE) ids is gathered
\* without a semaphore, all its polls in flight at once.
C23_ChunksPartitionList ==
    /\ [](\A c \in Sweeps :
              LET n == Len(post_ids[c])
                  b == POLL_BATCH_SIZE
                  k == start[c] \div b + 1
                  size == Min(b, n - start[c])
              IN  rpc[c] \in {"running", "done"} /\ n > 0 =>
                      /\ start[c] % b = 0
                      /\ 1 <= size
                      /\ { i \in Positions(c) : task[c][i].pc # "new" } = Covered(n, b, k)
                      /\ \A i \in Positions(c) : task[c][i].post_id = post_ids[c][i]
                      /\ rpc[c] = "done" => k * b >= n /\ (k - 1) * b < n
                      /\ (semaphore[c] = NoSemaphore) <=>
                             (size <= Min(APIFY_MAX_CONCURRENT_RUNS, b)))
    /\ [][\A c \in Sweeps :
              LET gathered == { i \in 1..Len(post_ids'[c]) :
                                    /\ task'[c][i].pc = "created"
                                    /\ (rpc[c] = "idle" \/ task[c][i].pc = "new") }
                  before == IF rpc[c] = "idle" THEN 0
                            ELSE Cardinality({ i \in Positions(c) : task[c][i].pc # "new" })
                  ran == { i \in Positions(c) : task[c][i].pc = "created" }
              IN  /\ gathered # {} =>
                         /\ gathered = (before + 1)..(before + Cardinality(gathered))
                         /\ \/ Cardinality(gathered) = POLL_BATCH_SIZE
                            \/ /\ Cardinality(gathered) < POLL_BATCH_SIZE
                               /\ before + Cardinality(gathered) = Len(post_ids'[c])
                  /\ (ran # {} /\ semaphore[c] = NoSemaphore
                          /\ \A i \in ran : task'[c][i].pc # "created") =>
                         \A i \in ran : task'[c][i].pc = "http"]_vars

\* Twelve ids in chunks of five: the third chunk, of two ids, is in flight
\* after two chunks of five are done.
C23_Witness ==
    \E c \in Sweeps :
        /\ Len(post_ids[c]) = 12
        /\ POLL_BATCH_SIZE = 5
        /\ start[c] = 10
        /\ \A i \in 1..10 : task[c][i].pc = "done"
        /\ \A i \in 11..12 : task[c][i].pc = "http"
        /\ semaphore[c] = NoSemaphore

\* C24: fetch_instagram_metrics asks the actor API and nothing else: a success
\* is tagged "apify" and written as "ok:apify"; with the retries exhausted the
\* fetch ends in the failure made of the diagnostics of its
\* FETCH_RETRY_COUNT actor calls, and the snapshot is the error row, never the
\* result of another provider.
C24_OnlyActorProvider ==
    /\ \A k \in 1..Len(snapshots) :
           snapshots[k].source_status \in {"scheduled", "error", "ok:apify"}
    /\ \A ci \in Tasks :
           LET t == TaskAt(ci)
           IN  /\ t.outcome.kind = "success" => t.outcome.provider = "apify"
               /\ Len(t.errors) <= t.calls
               /\ (t.calls = FETCH_RETRY_COUNT /\ Len(t.errors) = FETCH_RETRY_COUNT) =>
                      /\ t.outcome.kind = "failure"
                      /\ t.pc = "done" => t.wrote = << ErrorRow(t) >>

\* Both attempts of a fetch with one retry have failed: the poll has ended
\* and its snapshot is the error row.
C24_Witness ==
    \E ci \in Tasks :
        /\ FETCH_RETRY_COUNT = 2
        /\ TaskAt(ci).calls = 2
        /\ TaskAt(ci).pc = "done"
        /\ TaskAt(ci).outcome.kind = "failure"
        /\ \E k \in 1..Len(snapshots) : snapshots[k].source_status = "error"

\* The diagnostic of an attempt whose item had none of the three metrics.
MissingFields == "Apify response missing views/likes/comments fields"

\* C25: a result without likes, comments and views is a failed attempt: no
\* fetch returns it as a success, every "ok:apify" snapshot has at least one
\* metric, and the attempt counts and is followed by the back-off wait and the
\* next attempt like any failed attempt.
C25_AllNullIsFailure ==
    /\ \A k \in 1..Len(snapshots) :
           snapshots[k].source_status = "ok:apify" => ~AllNone(snapshots[k])
    /\ \A ci \in Tasks :
           LET t == TaskAt(ci)
           IN  /\ t.outcome.kind = "success" => ~AllNone(t.outcome.metrics)
               /\ \A k \in 1..Len(t.errors) :
                      t.errors[k].exc = MissingFields =>
                          /\ t.errors[k].attempt = k
                          /\ k <= t.calls
                          /\ k < FETCH_RETRY_COUNT =>
                                 /\ t.slept[k] = BackoffTicks * k
                                 /\ t.calls > k \/ (t.pc = "sleep" /\ t.calls = k)
                          /\ k = FETCH_RETRY_COUNT => t.outcome.kind = "failure"

\* The first answer had no metrics; the fetch waited and made its second call,
\* which is in flight.
C25_Witness ==
    \E ci \in Tasks :
        /\ Len(TaskAt(ci).errors) = 1
        /\ TaskAt(ci).errors[1].exc = MissingFields
        /\ TaskAt(ci).calls = 2
        /\ TaskAt(ci).pc = "http"

\* C26: within one call of poll_all_active_posts or poll_due_posts no id is
\* polled twice at a time: the list has every id once, so no two coroutines
\* of the call hold the same id, in flight or not.
C26_OneFetchPerId ==
    \A c \in Sweeps : \A i \in Positions(c) : \A j \in Positions(c) :
        i # j =>
            /\ post_ids[c][i] # post_ids[c][j]
            /\ ~(/\ task[c][i].post_id = task[c][j].post_id
                 /\ task[c][i].pc \in {"http", "sleep"}
                 /\ task[c][j].pc \in {"http", "sleep"})

\* The fetches of two different posts of one sweep are in flight together.
C26_Witness ==
    \E c \in Sweeps : \E i \in Positions(c) : \E j \in Positions(c) :
        /\ i < j
        /\ task[c][i].post_id # task[c][j].post_id
        /\ task[c][i].pc = "http"
        /\ task[c][j].pc = "http"
        /\ task[c][i].fetches = 1
        /\ task[c][j].fetches = 1


\* ------------------------------------------------------------------------
\* Cancellation, extraction and the store under interleaving: C27 to C30
\* ------------------------------------------------------------------------
\* The snapshots a step appends for post id, in the order of their insertion.
AppendedFor(id) ==
    SelectSeq(SubSeq(snapshots', Len(snapshots) + 1, Len(snapshots')),
              LAMBDA row : row.post_id = id)

\* C27: cancelling the scheduler task during a sweep leaves the store whole.
\* The cancelling step itself writes nothing; a poll it has cancelled has
\* written neither its snapshot nor its last_polled_at, then and ever after;
\* every step that keeps the posts either appends no snapshot of a stored post
\* and leaves its last_polled_at, or appends one and sets last_polled_at to the
\* fetched_at of that snapshot; and once the loop is cancelled every snapshot
\* of a post that stays stored keeps its place and its content.
C27_CancelKeepsWritesWhole ==
    /\ [](\A ci \in Tasks :
             TaskAt(ci).pc = "cancelled" => TaskAt(ci).wrote = << >> /\ TaskAt(ci).updated = 0)
    /\ [][/\ (loop.pc # "cancelled" /\ loop'.pc = "cancelled") =>
                 snapshots' = snapshots /\ posts' = posts
          /\ DOMAIN posts' = DOMAIN posts =>
                 /\ Len(snapshots') >= Len(snapshots)
                 /\ \A id \in DOMAIN posts :
                        LET new == AppendedFor(id)
                        IN  IF new = << >>
                            THEN posts'[id].last_polled_at = posts[id].last_polled_at
                            ELSE /\ Len(new) = 1
                                 /\ posts'[id].last_polled_at = new[1].fetched_at
                 /\ loop.pc = "cancelled" =>
                        SubSeq(snapshots', 1, Len(snapshots)) = snapshots]_vars

\* The loop was cancelled in a sweep of which one poll had committed both its
\* writes and another was waiting for its response: the first is stored with
\* its last_polled_at, the second has left nothing.
C27_Witness ==
    /\ loop.pc = "cancelled"
    /\ loop.call \in Sweeps
    /\ rpc[loop.call] = "cancelled"
    /\ \E i \in Positions(loop.call) : \E j \in Positions(loop.call) :
           LET done == task[loop.call][i]
               cut == task[loop.call][j]
           IN  /\ done.pc = "done" /\ Len(done.wrote) = 1 /\ done.updated = 1
               /\ done.post_id \in DOMAIN posts
               /\ posts[done.post_id].last_polled_at = done.wrote[1].fetched_at
               /\ \E k \in 1..Len(snapshots) : snapshots[k] = done.wrote[1]
               /\ cut.pc = "cancelled" /\ cut.fetches = 1 /\ cut.wrote = << >>
               /\ cut.post_id \in DOMAIN posts
               /\ \A k \in 1..Len(snapshots) :
                      snapshots[k].post_id = cut.post_id =>
                          snapshots[k].source_status = "scheduled"


\* The first value of the chain that is not null.
FirstNonNull(values) ==
    LET given == { k \in 1..Len(values) : values[k] # NULL }
    IN  IF given = {} THEN NULL ELSE values[CHOOSE k \in given : \A j \in given : k <= j]

\* What the linked-data block gives for the field of the words: the count of
\* its first statistic whose type holds one of them and whose count is a
\* number.
LinkedData(html, words) ==
    LET given == { k \in 1..Len(html.stats) :
                       /\ Mentions(html.stats[k].name) \cap words # {}
                       /\ coerce_int(html.stats[k].json).t = "int" }
    IN  IF given = {} THEN NULL
        ELSE coerce_int(html.stats[CHOOSE k \in given : \A j \in given : k <= j].json).v

\* The chain of one field, from the page alone.
Resolved(html, patterns, compact, words) ==
    FirstNonNull(<< Optional(extract_first_int(html, patterns)),
                    Optional(extract_first_compact_number(html, compact)),
                    LinkedData(html, words) >>)

\* C28: extract_metrics_from_html returns, for each of likes, comments and
\* views on its own, the first value of the chain structured-data patterns,
\* compact-number phrase, linked-data block; what the page holds for one field
\* never changes what is returned for another.
C28_FieldsResolveIndependently ==
    out # NoResult =>
        /\ out.t = "dict"
        /\ out.v = [likes |-> Resolved(arg, LikesPatterns, LikesCompact, {"like"}),
                    comments |-> Resolved(arg, CommentsPatterns, CommentsCompact, {"comment"}),
                    views |-> Resolved(arg, ViewsPatterns, ViewsCompact, {"watch", "view", "play"})]


\* C29: last_polled_at of a stored post never decreases, whatever polls of it
\* are in flight together: every step leaves it or stores a timestamp that is
\* not earlier, and it is never earlier than the fetched_at of a poll snapshot
\* stored for the post.
C29_LastPolledNeverDecreases ==
    /\ [][\A id \in DOMAIN posts \cap DOMAIN posts' :
              posts[id].last_polled_at # NULL =>
                  /\ posts'[id].last_polled_at # NULL
                  /\ posts'[id].last_polled_at >= posts[id].last_polled_at]_vars
    /\ [](\A k \in 1..Len(snapshots) :
              (snapshots[k].source_status # "scheduled" /\ snapshots[k].post_id \in DOMAIN posts) =>
                  /\ posts[snapshots[k].post_id].last_polled_at # NULL
                  /\ posts[snapshots[k].post_id].last_polled_at >= snapshots[k].fetched_at)


\* C30: every stored snapshot is the snapshot of a stored post, under every
\* interleaving of the polls with delete_creator and delete_all_data.
C30_SnapshotsReferencePosts ==
    \A k \in 1..Len(snapshots) : snapshots[k].post_id \in DOMAIN posts


\* ------------------------------------------------------------------------
\* The entry checks: C31 to C33
\* ------------------------------------------------------------------------
\* C31: poll_post of an id that is not stored, or of a post that is not
\* active, does nothing: the call ends at once without a fetch or a provider
\* call, no snapshot is appended and no last_polled_at changes, then and in
\* every later state.
C31_UnknownOrInactiveIsNoOp ==
    /\ [][(/\ manual.pc = "new"
           /\ manual'.pc # "new"
           /\ (manual'.post_id \notin DOMAIN posts \/ posts[manual'.post_id].active # 1)) =>
              /\ manual'.pc = "done"
              /\ manual'.fetches = 0
              /\ manual'.calls = 0
              /\ snapshots' = snapshots
              /\ posts' = posts]_vars
    /\ []((/\ manual.pc # "new"
           /\ (manual.post_id \notin DOMAIN posts \/ posts[manual.post_id].active # 1)) =>
              /\ manual.pc = "done"
              /\ manual.fetches = 0 /\ manual.calls = 0 /\ manual.wrote = << >>
              /\ \A k \in 1..Len(snapshots) : snapshots[k].source_status = "scheduled"
              /\ \A id \in DOMAIN posts : posts[id].last_polled_at = NULL)

\* poll_post has returned for the id of a stored post that is not active,
\* beside an active post that it would have fetched.
C31_Witness ==
    /\ manual.pc = "done"
    /\ manual.post_id \in DOMAIN posts
    /\ posts[manual.post_id].active = 0
    /\ manual.fetches = 0
    /\ \E id \in DOMAIN posts : posts[id].active = 1
    /\ \E id \in PostIds : id \notin DOMAIN posts
    /\ APIFY_TOKEN


\* The URLs of the stored posts.
Tracked == { post_url[id] : id \in DOMAIN posts }

\* C32: no two stored posts have the same URL, and POST /api/posts with the
\* URL of a stored post is answered with 409 and changes no row of the
\* campaigns, the creators, the posts and the snapshots: neither the campaign
\* nor the creator it names is added.
C32_UrlTrackedOnce ==
    /\ [](\A p \in DOMAIN posts : \A q \in DOMAIN posts : post_url[p] = post_url[q] => p = q)
    /\ [][/\ \A payload \in Payloads :
                 (payload.post_url \in Tracked /\ add_post_payload(payload)) =>
                     reply'.status = 409
          /\ (reply'.status = 409 /\ (reply' # reply \/ last_id' # last_id)) =>
                 /\ campaigns' = campaigns
                 /\ creators' = creators
                 /\ posts' = posts
                 /\ snapshots' = snapshots
                 /\ post_url' = post_url]_vars

\* A request has been turned down with 409 in a store that holds a post, and
\* a campaign and a creator that such a request can name are not stored.
C32_Witness ==
    /\ reply.status = 409
    /\ DOMAIN posts # {}
    /\ Campaigns \ campaigns # {}
    /\ Handles \ creators # {}
    /\ Len(snapshots) = Cardinality(DOMAIN posts)


\* The step of cron_daily that answers a request or starts its sweep.
CronStep == out = NoResult /\ out' # NoResult

\* The secret a request presents: the text of its header, empty when absent.
Presented == OrEmpty(arg)

\* Nothing has been polled and no store differs from the seeded one.
Untouched ==
    /\ \A c \in Sweeps : rpc[c] = "idle"
    /\ \A id \in DOMAIN posts : posts[id].last_polled_at = NULL
    /\ \A k \in 1..Len(snapshots) : snapshots[k].source_status = "scheduled"
    /\ Len(snapshots) = Cardinality(DOMAIN posts)
    /\ campaigns = { CampaignOf(post_url[id]) : id \in DOMAIN posts }
    /\ creators = { posts[id].creator_id : id \in DOMAIN posts }

\* C33 as stated: without a configured secret the cron endpoint answers 503,
\* with a presented secret that differs from the configured one it answers
\* 401, in both cases nothing is polled and no store changes, and a sweep
\* starts only when the configured secret is not empty and equals the
\* presented one.
C33_SweepOnlyForEqualSecret ==
    /\ [][CronStep =>
              /\ CRON_SECRET = NoSecret => out' = Status(503)
              /\ (CRON_SECRET # NoSecret /\ Presented' # CRON_SECRET) => out' = Status(401)
              /\ out' \in {Status(503), Status(401)} =>
                     /\ rpc' = rpc /\ posts' = posts /\ snapshots' = snapshots
                     /\ campaigns' = campaigns /\ creators' = creators
              /\ rpc' # rpc => (CRON_SECRET # NoSecret /\ Presented' = CRON_SECRET)]_vars
    /\ [](out \in {Status(503), Status(401)} => Untouched)

\* C33, with the comparison the code makes: the presented secret is compared
\* after its surrounding whitespace is stripped.  Without a configured secret
\* the endpoint answers 503, with a presented secret whose stripped text
\* differs from the configured one it answers 401, in both cases nothing is
\* polled and no store changes; a sweep starts only when the configured
\* secret is not empty and equals the stripped presented one, it is a sweep
\* of the active posts, and once it has answered 200 every active post and no
\* other has been polled.
C33_SweepOnlyForStrippedSecret ==
    /\ [][CronStep =>
              /\ CRON_SECRET = NoSecret => out' = Status(503)
              /\ (CRON_SECRET # NoSecret /\ strip(Presented') # CRON_SECRET) =>
                     out' = Status(401)
              /\ out' \in {Status(503), Status(401)} =>
                     /\ rpc' = rpc /\ posts' = posts /\ snapshots' = snapshots
                     /\ campaigns' = campaigns /\ creators' = creators
              /\ rpc' # rpc =>
                     /\ CRON_SECRET # NoSecret
                     /\ strip(Presented') = CRON_SECRET
                     /\ \E c \in Sweeps : post_ids'[c] = Ascending(ActiveIds)
              /\ (CRON_SECRET # NoSecret /\ strip(Presented') = CRON_SECRET) =>
                     out' = Awaited]_vars
    /\ [](out \in {Status(503), Status(401)} => Untouched)
    /\ [](out # NoResult => (\E c \in Sweeps : rpc[c] # "idle") = (out \in {Awaited, Status(200)}))
    /\ [](out = Status(200) =>
              \A id \in DOMAIN posts : (posts[id].last_polled_at # NULL) = (posts[id].active = 1))

\* A request whose header is the configured secret with a blank before it has
\* been answered 200 after a sweep that polled an active post and left an
\* inactive one alone.
C33_Witness ==
    /\ out = Status(200)
    /\ arg # JNull
    /\ Presented # CRON_SECRET
    /\ strip(Presented) = CRON_SECRET
    /\ \E id \in DOMAIN posts : posts[id].active = 1 /\ posts[id].last_polled_at # NULL
    /\ \E id \in DOMAIN posts : posts[id].active = 0 /\ posts[id].last_polled_at = NULL

====
